---- MODULE Spec2Model ----
(***************************************************************************)
(* Software renderer of jruiz002/planetas: the frame buffer                *)
(* (src/src/framebuffer.rs), the triangle rasterizer (src/src/fragment.rs),*)
(* the per-triangle render loop and Planet::new (src/src/main.rs) and the  *)
(* OBJ loader (src/src/obj_loader.rs).                                     *)
(*                                                                         *)
(* f32 values are modelled exactly: a depth is a pair <<n, d>> with d >= 0 *)
(* standing for n/d, <<1, 0>> is +infinity and <<0, 0>> is NaN.  Screen    *)
(* positions are fixed-point numbers in half pixels, so that a pixel       *)
(* centre x + 0.5 is the integer 2x + 1.  A Color is one 8-bit channel.    *)
(***************************************************************************)
EXTENDS Integers, Sequences, FiniteSets, TLC

VARIABLES
    width, height,      \* Framebuffer.width, Framebuffer.height
    pixels,             \* Framebuffer.pixels : index -> Color
    zbuffer,            \* Framebuffer.zbuffer : index -> depth
    current_color,      \* Framebuffer.current_color
    call,               \* the last Framebuffer call: <<name, coordinates in range>>
    log                 \* SpecDepth: the last clear color and the depth-tested
                        \* writes to pixel (0, 0) since, in call order
VARIABLES
    tri,                \* the three TransformedVertex given to triangle()
    fragments,          \* the Vec<Fragment> triangle() returned
    rpc                 \* "input" before triangle() is called, "done" after
VARIABLES
    mesh,               \* Planet.mesh: [vertices, indices]
    ri,                 \* render_planet_software: the loop variable i
    renderPc            \* "triangles", "done" or "panicked"
VARIABLES
    overflow_checks,    \* whether the build panics on integer overflow
    positions, normals, \* load_obj: positions.len(), normals.len()
    uvs,                \* load_obj: uvs.len()
    vertices, indices,  \* load_obj: the Vecs of the mesh being built
    corner,             \* load_obj: i of `for i in 1..4` in a face line, else 0
    nlines,             \* load_obj: lines read so far
    loadPc,             \* "open", "reading", "ok", "err" or "panicked"
    planetPc            \* "new" until Planet::new has returned, then "created"
VARIABLES
    scene,              \* main: the inputs of the frame (planet, camera, time)
    seg,                \* render_rings, render_moon: iterations done
    texture,            \* the image last handed to the display, <<>> when none
    written,            \* <<index, color>> of the pixel writes since the last clear
    seen                \* scene -> the arrays at the end of its last render
VARIABLES
    arg,                \* the arguments of the function under evaluation
    ret                 \* <<what it returned>>, <<>> before the call
VARIABLES
    yaw, pitch,         \* Camera.yaw, Camera.pitch, in milliradians
    distance,           \* Camera.distance, in thousandths
    target,             \* Camera.target
    eye,                \* Camera.eye
    input               \* what raylib reported to the last Camera::update
VARIABLES
    line,               \* the line being drawn: [fn, x0, y0, x1, y1]
    walk                \* the Bresenham loop: [x, y, err, points, pc]

fbVars == <<width, height, pixels, zbuffer, current_color>>
rasterVars == <<tri, fragments, rpc>>
renderVars == <<mesh, ri, renderPc>>
loadVars == <<overflow_checks, positions, normals, uvs, vertices, indices,
              corner, nlines, loadPc, planetPc>>
frameVars == <<scene, seg, texture, written, seen>>
calcVars == <<arg, ret>>
cameraVars == <<yaw, pitch, distance, target, eye, input>>
lineVars == <<line, walk>>
otherVars == <<calcVars, cameraVars, lineVars>>
vars == <<width, height, pixels, zbuffer, current_color, call, log,
          tri, fragments, rpc, mesh, ri, renderPc,
          overflow_checks, positions, normals, uvs, vertices, indices,
          corner, nlines, loadPc, planetPc,
          scene, seg, texture, written, seen, arg, ret,
          yaw, pitch, distance, target, eye, input, line, walk>>

(***************************************************************************)
(* Bounds of the model.                                                    *)
(***************************************************************************)
MaxDepth == 1       \* finite depths written are 0..MaxDepth
MaxLog == 3         \* depth-tested writes followed per frame in SpecDepth
MaxCoord == 3       \* screen positions are 0..MaxCoord half pixels on each axis
MaxVerts == 3       \* SpecRender: vertices of a mesh
MaxIndices == 6     \* SpecRender: indices of a mesh
MaxLines == 4       \* SpecLoad: lines of the OBJ file
MaxFaceIndex == 2   \* SpecLoad: the numbers written in a face line are 0..MaxFaceIndex
IntBits == 5        \* SpecLine: i32 is modelled as a two's complement integer of IntBits bits
MantissaBits == 4    \* SpecCalc: the significand of an f32 is scaled to MantissaBits bits
MaxRings == 4        \* SpecCalc: create_sphere is called with 1..MaxRings rings
MaxSectors == 4      \* SpecCalc: and 1..MaxSectors sectors
MaxYaw == 1600      \* SpecCamera: |yaw| stays within MaxYaw milliradians
MaxTarget == 400     \* SpecCamera: target is within MaxTarget thousandths to the right and forward
TrigTerms == 8       \* SpecCamera: cos and sin are summed to TrigTerms terms of their series

\* Color::BLACK and Color::WHITE, as one channel.
BLACK == 0
WHITE == 255
Colors == {BLACK, 100, WHITE}

\* The sizes Framebuffer::new is called with.
Dims == {<<1, 1>>, <<1, 2>>, <<2, 1>>}

(***************************************************************************)
(* f32 depths.                                                             *)
(***************************************************************************)
INFINITY == <<1, 0>>
NAN == <<0, 0>>
Depths == {<<k, 1>> : k \in 0..MaxDepth} \cup {INFINITY, NAN}

\* a < b on f32: false when either side is NaN.
FLt_loose(a, b) == a # NAN /\ b # NAN /\ a[1] * b[2] <= b[1] * a[2]
FLt(a, b) == a # NAN /\ b # NAN /\ a[1] * b[2] < b[1] * a[2]

\* f32::min, which ignores a NaN operand.
FMin(a, b) == IF a = NAN THEN b ELSE IF b = NAN THEN a ELSE IF FLt(b, a) THEN b ELSE a

(***************************************************************************)
(* Framebuffer.                                                            *)
(***************************************************************************)
\* Arguments of type u32 and of type i32 that the calls are tried with.
U32Xs == 0..width
U32Ys == 0..height
I32Xs == -1..width
I32Ys == -1..height

NewFramebuffer(w, h) ==
    /\ width = w
    /\ height = h
    /\ pixels = [i \in 0..(w * h - 1) |-> BLACK]
    /\ current_color = WHITE
    /\ zbuffer = [i \in 0..(w * h - 1) |-> INFINITY]

Index_swapped(x, y) == y * height + x
Index(x, y) == y * width + x

InRange_loose(x, y) == x <= width /\ y < height
InRange(x, y) == x < width /\ y < height

clear_skipped(color) == UNCHANGED fbVars
clear_oneRow(color) ==
    /\ pixels' = [i \in 0..(width - 1) |-> color]
    /\ zbuffer' = [i \in 0..(width - 1) |-> INFINITY]
    /\ UNCHANGED <<width, height, current_color>>
clear_colorOnly(color) ==
    /\ pixels' = [i \in DOMAIN pixels |-> color]
    /\ UNCHANGED <<width, height, current_color, zbuffer>>
clear(color) ==
    /\ pixels' = [i \in DOMAIN pixels |-> color]
    /\ zbuffer' = [i \in DOMAIN zbuffer |-> INFINITY]
    /\ UNCHANGED <<width, height, current_color>>

set_current_color(color) ==
    /\ current_color' = color
    /\ UNCHANGED <<width, height, pixels, zbuffer>>

set_pixel(x, y) ==
    /\ IF InRange(x, y)
         THEN pixels' = [pixels EXCEPT ![Index(x, y)] = current_color]
         ELSE UNCHANGED pixels
    /\ UNCHANGED <<width, height, current_color, zbuffer>>

set_pixel_color_tested(x, y, color) ==
    /\ IF InRange(x, y) /\ zbuffer[Index(x, y)] = INFINITY
         THEN pixels' = [pixels EXCEPT ![Index(x, y)] = color]
         ELSE UNCHANGED pixels
    /\ UNCHANGED <<width, height, current_color, zbuffer>>
set_pixel_color(x, y, color) ==
    /\ IF InRange(x, y)
         THEN pixels' = [pixels EXCEPT ![Index(x, y)] = color]
         ELSE UNCHANGED pixels
    /\ UNCHANGED <<width, height, current_color, zbuffer>>

set_pixel_with_depth_ties(x, y, color, depth) ==
    /\ IF InRange(x, y) /\ FLt_loose(depth, zbuffer[Index(x, y)])
         THEN /\ pixels' = [pixels EXCEPT ![Index(x, y)] = color]
              /\ zbuffer' = [zbuffer EXCEPT ![Index(x, y)] = depth]
         ELSE UNCHANGED <<pixels, zbuffer>>
    /\ UNCHANGED <<width, height, current_color>>
set_pixel_with_depth(x, y, color, depth) ==
    /\ IF InRange(x, y) /\ FLt(depth, zbuffer[Index(x, y)])
         THEN /\ pixels' = [pixels EXCEPT ![Index(x, y)] = color]
              /\ zbuffer' = [zbuffer EXCEPT ![Index(x, y)] = depth]
         ELSE UNCHANGED <<pixels, zbuffer>>
    /\ UNCHANGED <<width, height, current_color>>

\* set_pixel_with_depth as a function of the two arrays fb = <<pixels, zbuffer>>,
\* for the callers that write a whole sequence of fragments in one call.
set_pixel_with_depth_on(fb, x, y, color, depth) ==
    IF InRange(x, y) /\ FLt(depth, fb[2][Index(x, y)])
      THEN <<[fb[1] EXCEPT ![Index(x, y)] = color],
             [fb[2] EXCEPT ![Index(x, y)] = depth]>>
      ELSE fb

get_pixel(x, y) == IF InRange(x, y) THEN pixels[Index(x, y)] ELSE BLACK

point(x, y, color) ==
    IF x >= 0 /\ x < width /\ y >= 0 /\ y < height
      THEN set_pixel_color(x, y, color)
      ELSE UNCHANGED fbVars

point_with_depth(x, y, color, depth) ==
    IF x >= 0 /\ x < width /\ y >= 0 /\ y < height
      THEN set_pixel_with_depth(x, y, color, depth)
      ELSE UNCHANGED fbVars

\* The write of one fragment in render_planet_software: the guard on the
\* fragment's position, then the depth-tested write.
write_fragment(x, y, color, depth) ==
    IF x >= 0 /\ x < width /\ y >= 0 /\ y < height
      THEN set_pixel_with_depth(x, y, color, depth)
      ELSE UNCHANGED fbVars

(***************************************************************************)
(* Exact arithmetic on f32 values that are rationals: <<n, d>> with d > 0  *)
(* and n, d coprime.                                                       *)
(***************************************************************************)
Abs(n) == IF n < 0 THEN -n ELSE n

RECURSIVE GCD(_, _)
GCD(a, b) == IF b = 0 THEN a ELSE GCD(b, a % b)

RNorm(r) ==
    LET g == GCD(Abs(r[1]), Abs(r[2]))
        sgn == IF r[2] < 0 THEN -1 ELSE 1
    IN  <<sgn * (r[1] \div g), sgn * (r[2] \div g)>>

RAdd(a, b) == RNorm(<<a[1] * b[2] + b[1] * a[2], a[2] * b[2]>>)
RSub(a, b) == RNorm(<<a[1] * b[2] - b[1] * a[2], a[2] * b[2]>>)
RMul(a, b) == RNorm(<<a[1] * b[1], a[2] * b[2]>>)
RGe0(a) == a[1] >= 0
RGt0(a) == a[1] > 0

Zero == <<0, 1>>
One == <<1, 1>>
MinusOne == <<-1, 1>>

\* The same on every f32 value: <<1, 0>> and <<-1, 0>> are the infinities and
\* <<0, 0>> is NaN.  The sign of a zero is not kept.
FNorm(r) ==
    IF r[2] # 0 THEN RNorm(r)
    ELSE IF r[1] > 0 THEN <<1, 0>>
    ELSE IF r[1] < 0 THEN <<-1, 0>>
    ELSE <<0, 0>>

\* The common factor of two denominators, taken out before they are multiplied.
Common(m, n) == IF m = 0 \/ n = 0 THEN 1 ELSE GCD(m, n)

FAdd(a, b) ==
    LET g == Common(a[2], b[2])
    IN  IF a[2] = 0 /\ b[2] = 0
        THEN IF a = b THEN a ELSE <<0, 0>>
        ELSE FNorm(<<a[1] * (b[2] \div g) + b[1] * (a[2] \div g),
                     (a[2] \div g) * b[2]>>)

FMul(a, b) == FNorm(<<a[1] * b[1], a[2] * b[2]>>)

FNeg(a) == <<-a[1], a[2]>>


FDiv(a, b) ==
    LET sgn == IF b[1] < 0 THEN -1 ELSE 1
        g == Common(a[2], b[2])
    IN  FNorm(<<sgn * a[1] * (b[2] \div g), (a[2] \div g) * sgn * b[1]>>)

\* The rounding of every f32 operation: to the nearest number with a
\* significand of MantissaBits bits, ties to the even one.  The exponent is
\* not bounded.
RECURSIVE Pow2(_)
Pow2(n) == IF n = 0 THEN 1 ELSE 2 * Pow2(n - 1)

RoundHalfEven(n, d) ==
    LET q == n \div d
        r == n % d
    IN  IF 2 * r < d THEN q
        ELSE IF 2 * r > d THEN q + 1
        ELSE IF q % 2 = 0 THEN q ELSE q + 1

RECURSIVE RoundMagnitude(_, _)
RoundMagnitude(n, d) ==
    IF n < d * Pow2(MantissaBits - 1)
      THEN LET h == RoundMagnitude(2 * n, d) IN RNorm(<<h[1], 2 * h[2]>>)
    ELSE IF n >= d * Pow2(MantissaBits)
      THEN LET h == RoundMagnitude(n, 2 * d) IN RNorm(<<2 * h[1], h[2]>>)
    ELSE <<RoundHalfEven(n, d), 1>>

F32(x) ==
    IF x[2] = 0 \/ x[1] = 0 THEN x
    ELSE IF x[1] < 0 THEN FNeg(RoundMagnitude(-x[1], x[2]))
    ELSE RoundMagnitude(x[1], x[2])

F32Add(a, b) == F32(FAdd(a, b))
F32Mul(a, b) == F32(FMul(a, b))
F32Div(a, b) == F32(FDiv(a, b))

\* a == b and a != b on f32: NaN equals nothing.
FEq(a, b) == a # <<0, 0>> /\ b # <<0, 0>> /\ a = b
FNe(a, b) == ~FEq(a, b)

(***************************************************************************)
(* fragment.rs.  A TransformedVertex is [x, y, z, color]: screen_position  *)
(* x and y in half pixels, screen_position.z and one color channel as      *)
(* rationals.  A Fragment is [x, y, depth, color] with x and y in pixels.  *)
(* world_position and normal are interpolated as z and color are and are   *)
(* read by no part of the pipeline after the rasterizer, so they are not   *)
(* carried.                                                                *)
(***************************************************************************)
Min2(a, b) == IF a < b THEN a ELSE b
Max2(a, b) == IF a > b THEN a ELSE b

\* floor() and ceil() as i32 of a position given in half pixels.
FloorPx(h) == h \div 2
CeilPx(h) == -((-h) \div 2)

\* p_x and p_y are in half pixels too.  area is in quarter square pixels, so
\* area.abs() < 1e-10 holds exactly when area is 0.
barycentric_coordinates_zeroSentinel(p_x, p_y, a, b, c) ==
    LET area == (b.y - c.y) * (a.x - c.x) + (c.x - b.x) * (a.y - c.y)
    IN  IF Abs(area) < 1
          THEN <<Zero, Zero, Zero>>
          ELSE LET w == RNorm(<<(b.y - c.y) * (p_x - c.x) + (c.x - b.x) * (p_y - c.y), area>>)
                   v == RNorm(<<(c.y - a.y) * (p_x - c.x) + (a.x - c.x) * (p_y - c.y), area>>)
                   u == RSub(RSub(One, w), v)
               IN  <<w, v, u>>
barycentric_coordinates_swapped(p_x, p_y, a, b, c) ==
    LET area == (b.y - c.y) * (a.x - c.x) + (c.x - b.x) * (a.y - c.y)
    IN  IF Abs(area) < 1
          THEN <<MinusOne, MinusOne, MinusOne>>
          ELSE LET w == RNorm(<<(c.y - a.y) * (p_x - c.x) + (a.x - c.x) * (p_y - c.y), area>>)
                   v == RNorm(<<(b.y - c.y) * (p_x - c.x) + (c.x - b.x) * (p_y - c.y), area>>)
                   u == RSub(RSub(One, w), v)
               IN  <<w, v, u>>
barycentric_coordinates_culling(p_x, p_y, a, b, c) ==
    LET area == (b.y - c.y) * (a.x - c.x) + (c.x - b.x) * (a.y - c.y)
    IN  IF area < 1
          THEN <<MinusOne, MinusOne, MinusOne>>
          ELSE LET w == RNorm(<<(b.y - c.y) * (p_x - c.x) + (c.x - b.x) * (p_y - c.y), area>>)
                   v == RNorm(<<(c.y - a.y) * (p_x - c.x) + (a.x - c.x) * (p_y - c.y), area>>)
                   u == RSub(RSub(One, w), v)
               IN  <<w, v, u>>
barycentric_coordinates(p_x, p_y, a, b, c) ==
    LET area == (b.y - c.y) * (a.x - c.x) + (c.x - b.x) * (a.y - c.y)
    IN  IF Abs(area) < 1
          THEN <<MinusOne, MinusOne, MinusOne>>
          ELSE LET w == RNorm(<<(b.y - c.y) * (p_x - c.x) + (c.x - b.x) * (p_y - c.y), area>>)
                   v == RNorm(<<(c.y - a.y) * (p_x - c.x) + (a.x - c.x) * (p_y - c.y), area>>)
                   u == RSub(RSub(One, w), v)
               IN  <<w, v, u>>

\* The fragment triangle() pushes for pixel (x, y) with weights (w, v, u).
Interpolate(x, y, bc, v1, v2, v3) ==
    [x |-> x, y |-> y,
     depth |-> RAdd(RAdd(RMul(bc[1], v1.z), RMul(bc[2], v2.z)), RMul(bc[3], v3.z)),
     color |-> RAdd(RAdd(RMul(bc[1], v1.color), RMul(bc[2], v2.color)),
                    RMul(bc[3], v3.color))]

\* The two loops of triangle(), from pixel (x, y) on: y outer, x inner.
RECURSIVE ScanStrict(_, _, _, _, _, _, _, _)
ScanStrict(v1, v2, v3, min_x, max_x, max_y, x, y) ==
    IF y > max_y THEN <<>>
    ELSE IF x > max_x THEN ScanStrict(v1, v2, v3, min_x, max_x, max_y, min_x, y + 1)
    ELSE LET bc == barycentric_coordinates(2 * x + 1, 2 * y + 1, v1, v2, v3)
             rest == ScanStrict(v1, v2, v3, min_x, max_x, max_y, x + 1, y)
         IN  IF RGt0(bc[1]) /\ RGt0(bc[2]) /\ RGt0(bc[3])
               THEN <<Interpolate(x, y, bc, v1, v2, v3)>> \o rest
               ELSE rest

RECURSIVE Scan(_, _, _, _, _, _, _, _)
Scan(v1, v2, v3, min_x, max_x, max_y, x, y) ==
    IF y > max_y THEN <<>>
    ELSE IF x > max_x THEN Scan(v1, v2, v3, min_x, max_x, max_y, min_x, y + 1)
    ELSE LET bc == barycentric_coordinates(2 * x + 1, 2 * y + 1, v1, v2, v3)
             rest == Scan(v1, v2, v3, min_x, max_x, max_y, x + 1, y)
         IN  IF RGe0(bc[1]) /\ RGe0(bc[2]) /\ RGe0(bc[3])
               THEN <<Interpolate(x, y, bc, v1, v2, v3)>> \o rest
               ELSE rest

triangle_strictEdges(v1, v2, v3) ==
    LET min_x == FloorPx(Min2(Min2(v1.x, v2.x), v3.x))
        min_y == FloorPx(Min2(Min2(v1.y, v2.y), v3.y))
        max_x == CeilPx(Max2(Max2(v1.x, v2.x), v3.x))
        max_y == CeilPx(Max2(Max2(v1.y, v2.y), v3.y))
    IN  ScanStrict(v1, v2, v3, min_x, max_x, max_y, min_x, min_y)
triangle(v1, v2, v3) ==
    LET min_x == FloorPx(Min2(Min2(v1.x, v2.x), v3.x))
        min_y == FloorPx(Min2(Min2(v1.y, v2.y), v3.y))
        max_x == CeilPx(Max2(Max2(v1.x, v2.x), v3.x))
        max_y == CeilPx(Max2(Max2(v1.y, v2.y), v3.y))
    IN  Scan(v1, v2, v3, min_x, max_x, max_y, min_x, min_y)

\* barycentric_coordinates, Interpolate and triangle again, with the result
\* of every operation rounded as the f32 operations round it.  A rounded
\* area is below 1e-10 only when it is 0.
barycentric_coordinates_f32(p_x, p_y, a, b, c) ==
    LET Sub(m, n) == F32(<<m - n, 1>>)
        area == F32Add(F32Mul(Sub(b.y, c.y), Sub(a.x, c.x)),
                       F32Mul(Sub(c.x, b.x), Sub(a.y, c.y)))
    IN  IF area[1] = 0
          THEN <<MinusOne, MinusOne, MinusOne>>
          ELSE LET w == F32Div(F32Add(F32Mul(Sub(b.y, c.y), Sub(p_x, c.x)),
                                      F32Mul(Sub(c.x, b.x), Sub(p_y, c.y))), area)
                   v == F32Div(F32Add(F32Mul(Sub(c.y, a.y), Sub(p_x, c.x)),
                                      F32Mul(Sub(a.x, c.x), Sub(p_y, c.y))), area)
                   u == F32Add(F32Add(One, FNeg(w)), FNeg(v))
               IN  <<w, v, u>>

Interpolate_f32(x, y, bc, v1, v2, v3) ==
    [x |-> x, y |-> y,
     depth |-> F32Add(F32Add(F32Mul(bc[1], v1.z), F32Mul(bc[2], v2.z)),
                      F32Mul(bc[3], v3.z)),
     color |-> F32Add(F32Add(F32Mul(bc[1], v1.color), F32Mul(bc[2], v2.color)),
                      F32Mul(bc[3], v3.color))]

RECURSIVE Scan_f32(_, _, _, _, _, _, _, _)
Scan_f32(v1, v2, v3, min_x, max_x, max_y, x, y) ==
    IF y > max_y THEN <<>>
    ELSE IF x > max_x THEN Scan_f32(v1, v2, v3, min_x, max_x, max_y, min_x, y + 1)
    ELSE LET bc == barycentric_coordinates_f32(2 * x + 1, 2 * y + 1, v1, v2, v3)
             rest == Scan_f32(v1, v2, v3, min_x, max_x, max_y, x + 1, y)
         IN  IF RGe0(bc[1]) /\ RGe0(bc[2]) /\ RGe0(bc[3])
               THEN <<Interpolate_f32(x, y, bc, v1, v2, v3)>> \o rest
               ELSE rest

triangle_f32(v1, v2, v3) ==
    LET min_x == FloorPx(Min2(Min2(v1.x, v2.x), v3.x))
        min_y == FloorPx(Min2(Min2(v1.y, v2.y), v3.y))
        max_x == CeilPx(Max2(Max2(v1.x, v2.x), v3.x))
        max_y == CeilPx(Max2(Max2(v1.y, v2.y), v3.y))
    IN  Scan_f32(v1, v2, v3, min_x, max_x, max_y, min_x, min_y)

(***************************************************************************)
(* SpecRaster: triangle() called once on three transformed vertices.       *)
(***************************************************************************)
Coords == 0..MaxCoord

\* Depth and color of a vertex: a near one brighter than white, a middle one
\* and a far dark one.
Near == [z |-> Zero, color |-> <<3, 2>>]
Mid == [z |-> <<1, 2>>, color |-> <<1, 2>>]
Far == [z |-> One, color |-> <<1, 4>>]

Positions == Coords \X Coords

TransformedVertex(p, a) == [x |-> p[1], y |-> p[2], z |-> a.z, color |-> a.color]

\* The triangles triangle() is called with: any three positions, the three
\* vertices at three different depths and colors.
Triangles ==
    {<<TransformedVertex(p1, Near), TransformedVertex(p2, Mid),
       TransformedVertex(p3, Far)>> :
        p1 \in Positions, p2 \in Positions, p3 \in Positions}

NoRaster ==
    /\ tri = <<>>
    /\ fragments = <<>>
    /\ rpc = "idle"

NoRender ==
    /\ mesh = [vertices |-> <<>>, indices |-> <<>>]
    /\ ri = 0
    /\ renderPc = "idle"

NoLoad ==
    /\ overflow_checks = FALSE
    /\ positions = 0 /\ normals = 0 /\ uvs = 0
    /\ vertices = <<>> /\ indices = <<>>
    /\ corner = 0 /\ nlines = 0
    /\ loadPc = "idle"
    /\ planetPc = "idle"

NoFrame ==
    /\ scene = 0
    /\ seg = 0
    /\ texture = <<>>
    /\ written = {}
    /\ seen = <<>>

NoCalc ==
    /\ arg = <<>>
    /\ ret = <<>>

NoCamera ==
    /\ yaw = 0 /\ pitch = 0 /\ distance = 0
    /\ target = 0
    /\ eye = <<>>
    /\ input = <<>>

NoLine ==
    /\ line = <<>>
    /\ walk = <<>>

InitRaster ==
    /\ NewFramebuffer(1, 1)
    /\ call = <<"new", TRUE>>
    /\ log = [color |-> BLACK, writes |-> <<>>]
    /\ tri \in Triangles
    /\ fragments = <<>>
    /\ rpc = "input"
    /\ NoRender
    /\ NoLoad
    /\ NoFrame /\ NoCalc /\ NoCamera /\ NoLine

Rasterize ==
    /\ rpc = "input"
    /\ fragments' = triangle(tri[1], tri[2], tri[3])
    /\ rpc' = "done"
    /\ UNCHANGED <<tri, fbVars, call, log, renderVars, loadVars, frameVars, otherVars>>

NextRaster == Rasterize

SpecRaster == InitRaster /\ [][NextRaster]_vars

(***************************************************************************)
(* main.rs: render_planet_software.  The vertex shader, the model rotation,*)
(* the view, projection and viewport transforms and the fragment shader    *)
(* are functions of the vertex and of values fixed for the frame, so a     *)
(* vertex of the mesh is given as the TransformedVertex they produce.      *)
(***************************************************************************)
\* `as u8` of an f32: the cast truncates toward zero, saturates at 0 and 255
\* and turns NaN into 0.
AsU8_wrapping(f) ==
    IF f[2] = 0 THEN 0
    ELSE IF f[1] < 0 THEN (-((-f[1]) \div f[2])) % 256
    ELSE (f[1] \div f[2]) % 256

AsU8(f) ==
    IF f[2] = 0 THEN IF f[1] > 0 THEN 255 ELSE 0
    ELSE IF f[1] <= 0 THEN 0
    ELSE IF f[1] \div f[2] > 255 THEN 255
    ELSE f[1] \div f[2]

\* ShaderColor::to_raylib_color, one channel: (c * 255.0) as u8.
to_raylib_color(c) == AsU8(FMul(c, <<255, 1>>))

\* The loop over the fragments of one triangle, from fragment k on, on the
\* arrays fb = <<pixels, zbuffer>>.
RECURSIVE WriteFragments(_, _, _)
WriteFragments(fb, frags, k) ==
    IF k > Len(frags) THEN fb
    ELSE LET f == frags[k]
         IN  WriteFragments(
                 IF f.x >= 0 /\ f.x < width /\ f.y >= 0 /\ f.y < height
                   THEN set_pixel_with_depth_on(fb, f.x, f.y,
                                                to_raylib_color(f.color), f.depth)
                   ELSE fb,
                 frags, k + 1)

\* Whether the loop body at i reads indices[i], indices[i + 1], indices[i + 2]
\* and the three vertices inside their Vecs.  The sequences are 1-based:
\* indices[i] of the code is mesh.indices[i + 1] here.
ReadsInBounds(i) ==
    /\ i + 2 < Len(mesh.indices)
    /\ mesh.indices[i + 1] < Len(mesh.vertices)
    /\ mesh.indices[i + 2] < Len(mesh.vertices)
    /\ mesh.indices[i + 3] < Len(mesh.vertices)

\* One iteration of `for i in (0..indices.len()).step_by(3)`.  An index
\* expression out of bounds panics.
RenderTriangle ==
    /\ renderPc = "triangles"
    /\ ri < Len(mesh.indices)
    /\ IF ReadsInBounds(ri)
         THEN LET v1 == mesh.vertices[mesh.indices[ri + 1] + 1]
                  v2 == mesh.vertices[mesh.indices[ri + 2] + 1]
                  v3 == mesh.vertices[mesh.indices[ri + 3] + 1]
                  fb == WriteFragments(<<pixels, zbuffer>>, triangle(v1, v2, v3), 1)
              IN  /\ pixels' = fb[1]
                  /\ zbuffer' = fb[2]
                  /\ ri' = ri + 3
                  /\ renderPc' = "triangles"
         ELSE /\ renderPc' = "panicked"
              /\ UNCHANGED <<pixels, zbuffer, ri>>
    /\ UNCHANGED <<width, height, current_color, mesh, call, log, rasterVars, loadVars,
                   otherVars>>

\* The loop is over.
RenderDone ==
    /\ renderPc = "triangles"
    /\ ri >= Len(mesh.indices)
    /\ renderPc' = "done"
    /\ UNCHANGED <<fbVars, mesh, ri, call, log, rasterVars, loadVars, otherVars>>

(***************************************************************************)
(* SpecRender: one frame of one mesh on a cleared 2 x 2 frame buffer.      *)
(***************************************************************************)
\* The vertices meshes are made of, as transformed for the frame.
VertexPool ==
    <<TransformedVertex(<<0, 0>>, Near), TransformedVertex(<<6, 0>>, Far),
      TransformedVertex(<<0, 6>>, Mid), TransformedVertex(<<6, 6>>, Near),
      TransformedVertex(<<2, 2>>, Far)>>

RECURSIVE SeqsUpTo(_, _)
SeqsUpTo(S, n) ==
    IF n = 0 THEN {<<>>}
    ELSE LET shorter == SeqsUpTo(S, n - 1)
         IN  shorter \cup {Append(q, e) : q \in {t \in shorter : Len(t) = n - 1}, e \in S}

\* Any index list, well formed or not: the vertices are a prefix of the pool
\* and the indices are below MaxVerts, which the prefix may be shorter than.
Meshes(pool) ==
    {[vertices |-> SubSeq(pool, 1, n), indices |-> ix] :
        n \in 0..Min2(MaxVerts, Len(pool)),
        ix \in SeqsUpTo(0..(MaxVerts - 1), MaxIndices)}

InitRender ==
    /\ NewFramebuffer(2, 2)
    /\ call = <<"clear", TRUE>>
    /\ log = [color |-> BLACK, writes |-> <<>>]
    /\ NoRaster
    /\ mesh \in Meshes(VertexPool)
    /\ ri = 0
    /\ renderPc = "triangles"
    /\ NoLoad
    /\ NoFrame /\ NoCalc /\ NoCamera /\ NoLine

NextRender ==
    \/ RenderTriangle /\ UNCHANGED frameVars
    \/ RenderDone /\ UNCHANGED frameVars

SpecRender == InitRender /\ [][NextRender]_vars

(***************************************************************************)
(* sphere.rs: Mesh::create_sphere.  A vertex of the sphere is named by its *)
(* ring i and sector j, of which its position, normal and uv are functions.*)
(***************************************************************************)
RECURSIVE SphereSectorIndices_noPoleTest(_, _, _, _)
SphereSectorIndices_noPoleTest(rings, sectors, i, j) ==
    IF j >= sectors THEN <<>>
    ELSE LET k1 == i * (sectors + 1)
             k2 == k1 + sectors + 1
         IN  <<k1 + j, k2 + j, k1 + j + 1>>
             \o <<k1 + j + 1, k2 + j, k2 + j + 1>>
             \o SphereSectorIndices_noPoleTest(rings, sectors, i, j + 1)

\* The body of `for j in 0..sectors`, from j on, in ring i.
RECURSIVE SphereSectorIndices(_, _, _, _)
SphereSectorIndices(rings, sectors, i, j) ==
    IF j >= sectors THEN <<>>
    ELSE LET k1 == i * (sectors + 1)
             k2 == k1 + sectors + 1
         IN  (IF i # 0 THEN <<k1 + j, k2 + j, k1 + j + 1>> ELSE <<>>)
             \o (IF i # rings - 1 THEN <<k1 + j + 1, k2 + j, k2 + j + 1>> ELSE <<>>)
             \o SphereSectorIndices(rings, sectors, i, j + 1)

\* The body of `for i in 0..rings`, from i on.
RECURSIVE SphereRingIndices(_, _, _)
SphereRingIndices(rings, sectors, i) ==
    IF i >= rings THEN <<>>
    ELSE SphereSectorIndices(rings, sectors, i, 0)
         \o SphereRingIndices(rings, sectors, i + 1)

\* The body of `for j in 0..=sectors` of the vertex loop, from j on.
RECURSIVE SphereSectorVertices(_, _, _)
SphereSectorVertices(sectors, i, j) ==
    IF j > sectors THEN <<>>
    ELSE <<[ring |-> i, sector |-> j]>> \o SphereSectorVertices(sectors, i, j + 1)

\* The body of `for i in 0..=rings`, from i on.
RECURSIVE SphereRingVertices(_, _, _)
SphereRingVertices(rings, sectors, i) ==
    IF i > rings THEN <<>>
    ELSE SphereSectorVertices(sectors, i, 0)
         \o SphereRingVertices(rings, sectors, i + 1)

create_sphere(rings, sectors) ==
    [vertices |-> SphereRingVertices(rings, sectors, 0),
     indices |-> SphereRingIndices(rings, sectors, 0)]

\* Planet::new falls back to Mesh::create_sphere(1.0, 32, 32).
DefaultRings == 32
DefaultSectors == 32

(***************************************************************************)
(* obj_loader.rs: load_obj, one step per line of the file and, in a face   *)
(* line, one per corner.  A number token of a face corner is -1 when it    *)
(* does not parse as usize, -2 when it is absent or empty, else its value. *)
(* `n - 1` on a usize 0 panics in a build with overflow checks and wraps   *)
(* to usize::MAX in one without.                                           *)
(***************************************************************************)
Unparsable == -1
Absent == -2
FaceNumbers == 0..MaxFaceIndex

loadFrame == <<fbVars, call, log, rasterVars, renderVars, overflow_checks,
               frameVars, otherVars>>

\* File::open fails: the `?` returns Err.
OpenFails ==
    /\ loadPc = "open"
    /\ loadPc' = "err"
    /\ UNCHANGED <<positions, normals, uvs, vertices, indices, corner, nlines,
                   planetPc, loadFrame>>

OpenOk ==
    /\ loadPc = "open"
    /\ loadPc' = "reading"
    /\ UNCHANGED <<positions, normals, uvs, vertices, indices, corner, nlines,
                   planetPc, loadFrame>>

MoreLines == loadPc = "reading" /\ corner = 0 /\ nlines < MaxLines

\* reader.lines() yields an Err: the `?` returns Err.
ReadLineFails ==
    /\ MoreLines
    /\ loadPc' = "err"
    /\ nlines' = nlines + 1
    /\ UNCHANGED <<positions, normals, uvs, vertices, indices, corner,
                   planetPc, loadFrame>>

\* An empty line, a comment, another command, or a v, vn, vt or f line with
\* too few parts: nothing is done.
ReadIgnoredLine ==
    /\ MoreLines
    /\ nlines' = nlines + 1
    /\ UNCHANGED <<positions, normals, uvs, vertices, indices, corner, loadPc,
                   planetPc, loadFrame>>

\* A "v" line with at least 4 parts; parses tells whether all three numbers do.
ReadPosition ==
    /\ MoreLines
    /\ nlines' = nlines + 1
    /\ \E parses \in BOOLEAN :
          IF parses
            THEN positions' = positions + 1 /\ UNCHANGED loadPc
            ELSE loadPc' = "err" /\ UNCHANGED positions
    /\ UNCHANGED <<normals, uvs, vertices, indices, corner, planetPc, loadFrame>>

\* A "vn" line with at least 4 parts.
ReadNormal ==
    /\ MoreLines
    /\ nlines' = nlines + 1
    /\ \E parses \in BOOLEAN :
          IF parses
            THEN normals' = normals + 1 /\ UNCHANGED loadPc
            ELSE loadPc' = "err" /\ UNCHANGED normals
    /\ UNCHANGED <<positions, uvs, vertices, indices, corner, planetPc, loadFrame>>

\* A "vt" line with at least 3 parts.
ReadUv ==
    /\ MoreLines
    /\ nlines' = nlines + 1
    /\ \E parses \in BOOLEAN :
          IF parses
            THEN uvs' = uvs + 1 /\ UNCHANGED loadPc
            ELSE loadPc' = "err" /\ UNCHANGED uvs
    /\ UNCHANGED <<positions, normals, vertices, indices, corner, planetPc, loadFrame>>

\* An "f" line with at least 4 parts: the loop over its corners starts.
ReadFace ==
    /\ MoreLines
    /\ nlines' = nlines + 1
    /\ corner' = 1
    /\ UNCHANGED <<positions, normals, uvs, vertices, indices, loadPc,
                   planetPc, loadFrame>>

\* One iteration of `for i in 1..4`, on a corner written pos/uv/nrm.
ReadFaceCorner ==
    /\ loadPc = "reading"
    /\ corner \in 1..3
    /\ \E pos \in FaceNumbers \cup {Unparsable},
          uv \in FaceNumbers \cup {Unparsable, Absent},
          nrm \in FaceNumbers \cup {Unparsable, Absent} :
          IF pos = Unparsable
            THEN \* "Invalid face position index"
                 /\ loadPc' = "err"
                 /\ UNCHANGED <<vertices, indices, corner>>
            ELSE IF overflow_checks /\ (pos = 0 \/ uv = 0 \/ nrm = 0)
            THEN \* attempt to subtract with overflow
                 /\ loadPc' = "panicked"
                 /\ UNCHANGED <<vertices, indices, corner>>
            ELSE \* pos = 0 wraps to usize::MAX, which is no position
                 /\ IF pos >= 1 /\ pos - 1 < positions
                      THEN /\ vertices' = Append(vertices, [position |-> pos - 1])
                           /\ indices' = Append(indices, Len(vertices))
                      ELSE UNCHANGED <<vertices, indices>>
                 /\ corner' = IF corner = 3 THEN 0 ELSE corner + 1
                 /\ UNCHANGED loadPc
    /\ UNCHANGED <<positions, normals, uvs, nlines, planetPc, loadFrame>>

\* The lines are over.
EndOfFile ==
    /\ loadPc = "reading"
    /\ corner = 0
    /\ loadPc' = IF vertices = <<>> THEN "err" ELSE "ok"
    /\ UNCHANGED <<positions, normals, uvs, vertices, indices, corner, nlines,
                   planetPc, loadFrame>>

(***************************************************************************)
(* main.rs: Planet::new, once load_obj has returned.                       *)
(***************************************************************************)
PlanetNew ==
    /\ planetPc = "new"
    /\ loadPc \in {"ok", "err"}
    /\ mesh' = IF loadPc = "ok"
                 THEN [vertices |-> vertices, indices |-> indices]
                 ELSE create_sphere(DefaultRings, DefaultSectors)
    /\ planetPc' = "created"
    /\ UNCHANGED <<fbVars, call, log, rasterVars, ri, renderPc,
                   frameVars, otherVars, overflow_checks, positions, normals, uvs, vertices, indices,
                   corner, nlines, loadPc>>

(***************************************************************************)
(* SpecLoad: Planet::new on any file, in either kind of build.             *)
(***************************************************************************)
InitLoad ==
    /\ NewFramebuffer(1, 1)
    /\ call = <<"new", TRUE>>
    /\ log = [color |-> BLACK, writes |-> <<>>]
    /\ NoRaster
    /\ NoRender
    /\ overflow_checks \in BOOLEAN
    /\ positions = 0 /\ normals = 0 /\ uvs = 0
    /\ vertices = <<>> /\ indices = <<>>
    /\ corner = 0 /\ nlines = 0
    /\ loadPc = "open"
    /\ planetPc = "new"
    /\ NoFrame /\ NoCalc /\ NoCamera /\ NoLine

NextLoad ==
    \/ OpenFails
    \/ OpenOk
    \/ ReadLineFails
    \/ ReadIgnoredLine
    \/ ReadPosition
    \/ ReadNormal
    \/ ReadUv
    \/ ReadFace
    \/ ReadFaceCorner
    \/ EndOfFile
    \/ PlanetNew

SpecLoad == InitLoad /\ [][NextLoad]_vars

(***************************************************************************)
(* The Bresenham walks: Framebuffer::draw_line (framebuffer.rs) and        *)
(* draw_line_framebuffer (main.rs).  i32 is a two's complement integer of  *)
(* IntBits bits.  An operation whose result is out of range panics in a    *)
(* build with overflow checks and wraps in one without.                    *)
(***************************************************************************)
IntMin == -Pow2(IntBits - 1)
IntMax == Pow2(IntBits - 1) - 1

Overflows(n) == n < IntMin \/ n > IntMax
Wrap(n) == ((n - IntMin) % Pow2(IntBits)) + IntMin

\* `x as u32` of an i32: a negative x becomes a value no buffer is as wide as.
AsU32(x) == IF x < 0 THEN x + Pow2(IntBits) ELSE x

\* The locals before the loop.  ovf tells whether an operation overflowed.
LineLocals(l) ==
    LET ddx == l.x1 - l.x0
        ddy == l.y1 - l.y0
        adx == Abs(Wrap(ddx))
        ady == Abs(Wrap(ddy))
        dx == Wrap(adx)
        dy == IF l.fn = "draw_line" THEN Wrap(ady) ELSE Wrap(-Wrap(ady))
        err0 == IF l.fn = "draw_line" THEN dx - dy ELSE dx + dy
    IN  [dx |-> dx, dy |-> dy,
         sx |-> IF l.x0 < l.x1 THEN 1 ELSE -1,
         sy |-> IF l.y0 < l.y1 THEN 1 ELSE -1,
         err |-> Wrap(err0),
         ovf |-> \/ Overflows(ddx) \/ Overflows(ddy)
                 \/ Overflows(adx) \/ Overflows(ady)
                 \/ (l.fn # "draw_line" /\ Overflows(-Wrap(ady)))
                 \/ Overflows(err0)]

\* The rest of one iteration after the break test, as draw_line does it.
StepStrict(w) ==
    LET e2 == 2 * w.err
        we == Wrap(e2)
        stepx == we > Wrap(-w.dy)
        errx == IF stepx THEN w.err - w.dy ELSE w.err
        x2 == IF stepx THEN w.x + w.sx ELSE w.x
        stepy == we < w.dx
        erry == IF stepy THEN Wrap(errx) + w.dx ELSE Wrap(errx)
        y2 == IF stepy THEN w.y + w.sy ELSE w.y
    IN  [x |-> Wrap(x2), y |-> Wrap(y2), err |-> Wrap(erry),
         ovf |-> \/ Overflows(e2) \/ Overflows(-w.dy) \/ Overflows(errx)
                 \/ Overflows(x2) \/ Overflows(erry) \/ Overflows(y2)]

\* The same, as draw_line_framebuffer does it (dy is negative there).
StepInclusive(w) ==
    LET e2 == 2 * w.err
        we == Wrap(e2)
        stepx == we >= w.dy
        errx == IF stepx THEN w.err + w.dy ELSE w.err
        x2 == IF stepx THEN w.x + w.sx ELSE w.x
        stepy == we <= w.dx
        erry == IF stepy THEN Wrap(errx) + w.dx ELSE Wrap(errx)
        y2 == IF stepy THEN w.y + w.sy ELSE w.y
    IN  [x |-> Wrap(x2), y |-> Wrap(y2), err |-> Wrap(erry),
         ovf |-> \/ Overflows(e2) \/ Overflows(errx)
                 \/ Overflows(x2) \/ Overflows(erry) \/ Overflows(y2)]

\* What one iteration does to the frame buffer.
LinePlot(x, y) ==
    IF line.fn = "draw_line"
      THEN set_pixel(AsU32(x), AsU32(y))
      ELSE IF x >= 0 /\ x < width /\ y >= 0 /\ y < height
             THEN set_pixel_color(x, y, line.color)
             ELSE UNCHANGED fbVars

lineFrame == <<call, log, rasterVars, renderVars, loadVars, frameVars, calcVars,
               cameraVars>>

\* The statements before `loop`.
LineBegin ==
    /\ walk.pc = "call"
    /\ LET loc == LineLocals(line)
       IN  walk' = IF loc.ovf /\ overflow_checks
                     THEN [walk EXCEPT !.pc = "panicked"]
                     ELSE [x |-> line.x0, y |-> line.y0, err |-> loc.err,
                           dx |-> loc.dx, dy |-> loc.dy, sx |-> loc.sx, sy |-> loc.sy,
                           n |-> 0, pc |-> "loop"]
    /\ UNCHANGED <<line, fbVars, lineFrame>>

\* Iterations followed: more than any walk between two points of the range
\* that moves toward its end point needs.
MaxIterations == Pow2(IntBits) + 1

\* One iteration of `loop`: plot, leave at the end point, else advance.
LineIterate ==
    /\ walk.pc = "loop"
    /\ walk.n < MaxIterations
    /\ LinePlot(walk.x, walk.y)
    /\ IF walk.x = line.x1 /\ walk.y = line.y1
         THEN walk' = [walk EXCEPT !.n = @ + 1, !.pc = "done"]
         ELSE LET st == IF line.fn = "draw_line" THEN StepStrict(walk)
                        ELSE StepInclusive(walk)
              IN  walk' = IF st.ovf /\ overflow_checks
                            THEN [walk EXCEPT !.n = @ + 1, !.pc = "panicked"]
                            ELSE [walk EXCEPT !.n = @ + 1, !.x = st.x, !.y = st.y,
                                              !.err = st.err]
    /\ UNCHANGED <<line, lineFrame>>

(***************************************************************************)
(* SpecLine: one call of either walk on a 2 x 2 frame buffer.              *)
(***************************************************************************)
\* End point coordinates: around the buffer, and the extremes of i32.
LineCoords == {IntMin, -2, 0, 1, 3, IntMax}

InitLine ==
    /\ NewFramebuffer(2, 2)
    /\ call = <<"new", TRUE>>
    /\ log = [color |-> BLACK, writes |-> <<>>]
    /\ NoRaster /\ NoRender /\ NoFrame /\ NoCalc /\ NoCamera
    /\ overflow_checks \in BOOLEAN
    /\ positions = 0 /\ normals = 0 /\ uvs = 0
    /\ vertices = <<>> /\ indices = <<>>
    /\ corner = 0 /\ nlines = 0
    /\ loadPc = "idle"
    /\ planetPc = "idle"
    /\ \E f \in {"draw_line", "draw_line_framebuffer"},
          a \in LineCoords, b \in LineCoords, c \in LineCoords, d \in LineCoords :
          line = [fn |-> f, x0 |-> a, y0 |-> b, x1 |-> c, y1 |-> d, color |-> 100]
    /\ walk = [pc |-> "call"]

NextLine ==
    \/ LineBegin
    \/ LineIterate

SpecLine == InitLine /\ [][NextLine]_vars

\* The loop runs whenever it can.
SpecLineFair == SpecLine /\ WF_vars(NextLine)

(***************************************************************************)
(* main.rs: the frame loop of main, with render_rings and render_moon.     *)
(* What the camera, the time and the planet chosen make of the frame is a  *)
(* scene: the planet's mesh as transformed for the frame, the ring         *)
(* segments and the moon points as their shaders and the matrices give     *)
(* them, each a function of the frame's inputs only.                       *)
(***************************************************************************)
\* `h as i32` of an f32 screen coordinate given in half pixels: truncation
\* toward zero, saturating at the ends of i32.
AsI32(h) ==
    LET t == IF h >= 0 THEN h \div 2 ELSE -((-h) \div 2)
    IN  IF t > IntMax THEN IntMax ELSE IF t < IntMin THEN IntMin ELSE t

RECURSIVE WalkFb_depthTested(_, _, _)
WalkFb_depthTested(px, l, w) ==
    LET plotted == IF /\ w.x >= 0 /\ w.x < width /\ w.y >= 0 /\ w.y < height
                      /\ zbuffer[Index(w.x, w.y)] = INFINITY
                     THEN [px EXCEPT ![Index(w.x, w.y)] = l.color]
                     ELSE px
        st == StepInclusive(w)
    IN  IF w.x = l.x1 /\ w.y = l.y1 THEN [pixels |-> plotted, returned |-> TRUE]
        ELSE IF w.n >= MaxIterations \/ (st.ovf /\ overflow_checks)
          THEN [pixels |-> plotted, returned |-> FALSE]
        ELSE WalkFb_depthTested(plotted, l,
                                [w EXCEPT !.x = st.x, !.y = st.y, !.err = st.err,
                                          !.n = @ + 1])

\* The loop of draw_line_framebuffer from the walk w on, on the color array
\* px: the array it leaves, and whether it returned.
RECURSIVE WalkFb(_, _, _)
WalkFb(px, l, w) ==
    LET plotted == IF w.x >= 0 /\ w.x < width /\ w.y >= 0 /\ w.y < height
                     THEN [px EXCEPT ![Index(w.x, w.y)] = l.color]
                     ELSE px
        st == StepInclusive(w)
    IN  IF w.x = l.x1 /\ w.y = l.y1 THEN [pixels |-> plotted, returned |-> TRUE]
        ELSE IF w.n >= MaxIterations \/ (st.ovf /\ overflow_checks)
          THEN [pixels |-> plotted, returned |-> FALSE]
        ELSE WalkFb(plotted, l, [w EXCEPT !.x = st.x, !.y = st.y, !.err = st.err,
                                          !.n = @ + 1])

draw_line_framebuffer(px, start, end, color) ==
    LET l == [fn |-> "draw_line_framebuffer", x0 |-> AsI32(start[1]),
              y0 |-> AsI32(start[2]), x1 |-> AsI32(end[1]), y1 |-> AsI32(end[2]),
              color |-> color]
        loc == LineLocals(l)
    IN  IF loc.ovf /\ overflow_checks
          THEN [pixels |-> px, returned |-> FALSE]
          ELSE WalkFb(px, l, [x |-> l.x0, y |-> l.y0, err |-> loc.err,
                              dx |-> loc.dx, dy |-> loc.dy, sx |-> loc.sx,
                              sy |-> loc.sy, n |-> 0])

\* The scenes main is run on.  A ring segment is [start, end, color] and a
\* moon point [x, y, z, color], positions in half pixels and colors as the
\* shaders return them.
Scenes ==
    << \* the rocky planet and its moon
       [mesh |-> [vertices |-> SubSeq(VertexPool, 1, 4),
                  indices |-> <<0, 1, 2, 1, 3, 2>>],
        has_rings |-> FALSE, has_moon |-> TRUE, ring_segments |-> <<>>,
        moon_points |-> << [x |-> 3, y |-> 3, z |-> <<1, 4>>, color |-> <<2, 5>>],
                           [x |-> 5, y |-> 1, z |-> Zero, color |-> <<2, 5>>],
                           [x |-> 3, y |-> 3, z |-> <<1, 4>>, color |-> <<1, 5>>] >>],
       \* a gas giant and its rings
       [mesh |-> [vertices |-> SubSeq(VertexPool, 1, 5),
                  indices |-> <<0, 1, 4>>],
        has_rings |-> TRUE, has_moon |-> FALSE,
        ring_segments |-> << [start |-> <<-2, 2>>, end |-> <<2, 0>>, color |-> <<6, 5>>],
                             [start |-> <<2, 3>>, end |-> <<5, 3>>, color |-> <<3, 5>>],
                             [start |-> <<0, 0>>, end |-> <<2, 0>>, color |-> <<3, 5>>] >>,
        moon_points |-> <<>>],
       \* the lava planet, seen from where no triangle covers a pixel centre
       [mesh |-> [vertices |-> SubSeq(VertexPool, 1, 3),
                  indices |-> <<0, 0, 1>>],
        has_rings |-> FALSE, has_moon |-> FALSE, ring_segments |-> <<>>,
        moon_points |-> <<>>],
       \* a mesh whose last face lost two corners in load_obj
       [mesh |-> [vertices |-> SubSeq(VertexPool, 1, 4),
                  indices |-> <<1, 3, 2, 0>>],
        has_rings |-> TRUE, has_moon |-> FALSE,
        ring_segments |-> << [start |-> <<2, 3>>, end |-> <<5, 3>>, color |-> <<3, 5>>] >>,
        moon_points |-> <<>>] >>

frameFrame == <<log, rasterVars, loadVars, otherVars>>

\* The pixel writes of a step, for `written`.
Changed == {<<i, pixels'[i]>> : i \in {j \in DOMAIN pixels : pixels'[j] # pixels[j]}}

\* The head of the loop body: camera, keys and planet update give the scene,
\* then framebuffer.clear(Color::BLACK).
FrameBegin ==
    /\ renderPc = "frame"
    /\ \E k \in 1..Len(Scenes) :
          /\ scene' = k
          /\ mesh' = Scenes[k].mesh
    /\ clear(BLACK)
    /\ call' = <<"clear", TRUE>>
    /\ ri' = 0
    /\ seg' = 0
    /\ written' = {}
    /\ renderPc' = "triangles"
    /\ UNCHANGED <<texture, seen, frameFrame>>

\* rl.window_should_close()
WindowClose ==
    /\ renderPc = "frame"
    /\ renderPc' = "closed"
    /\ UNCHANGED <<fbVars, call, mesh, ri, frameVars, frameFrame>>

FrameTriangle ==
    /\ RenderTriangle
    /\ written' = written \cup Changed
    /\ UNCHANGED <<scene, seg, texture, seen>>

FrameTrianglesDone ==
    /\ RenderDone
    /\ UNCHANGED frameVars

\* One iteration of the loops of render_rings.
FrameRingSegment ==
    /\ renderPc = "done"
    /\ Scenes[scene].has_rings
    /\ seg < Len(Scenes[scene].ring_segments)
    /\ LET r == Scenes[scene].ring_segments[seg + 1]
           drawn == draw_line_framebuffer(pixels, r.start, r.end,
                                          to_raylib_color(r.color))
       IN  /\ pixels' = drawn.pixels
           /\ renderPc' = IF drawn.returned THEN "done" ELSE "panicked"
    /\ seg' = seg + 1
    /\ written' = written \cup Changed
    /\ UNCHANGED <<width, height, zbuffer, current_color, call, mesh, ri,
                   scene, texture, seen, frameFrame>>

FrameRingsDone ==
    /\ renderPc = "done"
    /\ ~Scenes[scene].has_rings \/ seg >= Len(Scenes[scene].ring_segments)
    /\ renderPc' = "moon"
    /\ seg' = 0
    /\ UNCHANGED <<fbVars, call, mesh, ri, scene, texture, written, seen, frameFrame>>

\* One iteration of the loops of render_moon.
FrameMoonPoint ==
    /\ renderPc = "moon"
    /\ Scenes[scene].has_moon
    /\ seg < Len(Scenes[scene].moon_points)
    /\ LET m == Scenes[scene].moon_points[seg + 1]
       IN  IF m.x >= 0 /\ m.x < 2 * width /\ m.y >= 0 /\ m.y < 2 * height
             THEN point_with_depth(AsI32(m.x), AsI32(m.y), to_raylib_color(m.color), m.z)
             ELSE UNCHANGED fbVars
    /\ seg' = seg + 1
    /\ written' = written \cup Changed
    /\ UNCHANGED <<call, mesh, ri, renderPc, scene, texture, seen, frameFrame>>

FrameMoonDone ==
    /\ renderPc = "moon"
    /\ ~Scenes[scene].has_moon \/ seg >= Len(Scenes[scene].moon_points)
    /\ renderPc' = "swap"
    /\ UNCHANGED <<fbVars, call, mesh, ri, scene, seg, texture, written, seen, frameFrame>>

\* framebuffer.swap_buffers: the pixels are copied to an image and the image
\* becomes the texture, unless the display refuses it.
FrameSwap ==
    /\ renderPc = "swap"
    /\ \E loaded \in BOOLEAN : texture' = IF loaded THEN pixels ELSE <<>>
    /\ seen' = [seen EXCEPT ![scene] = <<pixels, zbuffer>>]
    /\ renderPc' = "frame"
    /\ UNCHANGED <<fbVars, call, mesh, ri, scene, seg, written, frameFrame>>

(***************************************************************************)
(* SpecFrame: main from its loop on, on a 2 x 2 frame buffer.              *)
(***************************************************************************)
InitFrame ==
    /\ NewFramebuffer(2, 2)
    /\ call = <<"new", TRUE>>
    /\ log = [color |-> BLACK, writes |-> <<>>]
    /\ NoRaster /\ NoLoad /\ NoCalc /\ NoCamera /\ NoLine
    /\ mesh = [vertices |-> <<>>, indices |-> <<>>]
    /\ ri = 0
    /\ renderPc = "frame"
    /\ scene = 1
    /\ seg = 0
    /\ texture = <<>>
    /\ written = {}
    /\ seen = [k \in 1..Len(Scenes) |-> <<>>]

NextFrame ==
    \/ FrameBegin
    \/ WindowClose
    \/ FrameTriangle
    \/ FrameTrianglesDone
    \/ FrameRingSegment
    \/ FrameRingsDone
    \/ FrameMoonPoint
    \/ FrameMoonDone
    \/ FrameSwap

SpecFrame == InitFrame /\ [][NextFrame]_vars

(***************************************************************************)
(* camera.rs.  Angles are in milliradians, lengths and speeds in           *)
(* thousandths, the frame time in milliseconds and the mouse delta in      *)
(* pixels, so that delta * speed * time / 1000 is an angle in              *)
(* milliradians.  raylib reports finite numbers.  cos and sin are not      *)
(* evaluated: eye is kept as the expression update_position computes, and  *)
(* a component of target as the sum of the pans that led to it, each an    *)
(* amount times the cosine or the sine of the yaw it was made at.          *)
(***************************************************************************)
\* The fields Camera::new sets.
RotationSpeed == 2000
ZoomSpeed == 1000
PanSpeed == 500
InitialDistance == 5000

\* PI / 2.0 and PI / 2.0 - 0.1, and the arguments of distance.clamp.
HalfPi == 1571
PitchMax == 1470
DistanceMin == 1000
DistanceMax == 20000

\* f32::clamp on finite values.
clamp_none(x, lo, hi) == x
clamp(x, lo, hi) == IF x < lo THEN lo ELSE IF x > hi THEN hi ELSE x

\* update_position: the three sums of target and distance times the cosines
\* and sines of pitch and yaw.
update_position_beforeZoom(t, d, p, y) ==
    [x |-> <<t[1], "+", distance, "cos", p, "cos", y>>,
     y |-> <<t[2], "+", distance, "sin", p>>,
     z |-> <<t[3], "+", distance, "cos", p, "sin", y>>]

update_position(t, d, p, y) ==
    [x |-> <<t[1], "+", d, "cos", p, "cos", y>>,
     y |-> <<t[2], "+", d, "sin", p>>,
     z |-> <<t[3], "+", d, "cos", p, "sin", y>>]

\* What get_mouse_delta, get_mouse_wheel_move, is_mouse_button_down and
\* get_frame_time report in a frame.
MouseDeltas == {-50, 0, 50}
WheelMoves == {-15, 0, 15}
FrameTimes == {16}

Inputs == [dx : MouseDeltas, dy : MouseDeltas, wheel_move : WheelMoves,
           left : BOOLEAN, right : BOOLEAN, frame_time : FrameTimes]

\* A component of target: the amounts (thousandths) by the term they
\* multiply, <<"cos", yaw>> or <<"sin", yaw>>; no term stands for 0.0.
NoTerms == [t \in {} |-> 0]

\* component + amount * term
PlusTerm(component, amount, term) ==
    LET old == IF term \in DOMAIN component THEN component[term] ELSE 0
        new == old + amount
        terms == IF new = 0 THEN DOMAIN component \ {term}
                 ELSE DOMAIN component \cup {term}
    IN  [t \in terms |-> IF t = term THEN new ELSE component[t]]

\* The targets the model follows: those reached from the origin by pans made
\* at yaw y, no farther than MaxTarget to the right and forward.
WithinPanRange(t, y) ==
    \A term \in DOMAIN t[1] : term[2] = y /\ Abs(t[1][term]) <= MaxTarget

Origin == <<NoTerms, NoTerms, NoTerms>>

\* Lines 61 to 65, with right = (cos yaw, 0, sin yaw) and
\* forward = (-sin yaw, 0, cos yaw); the products with 0.0 add nothing to
\* the height.
Panned_pitched(t, y, p, panRight, panForward) ==
    <<PlusTerm(PlusTerm(t[1], panRight, <<"cos", y>>), -panForward, <<"sin", y>>),
      PlusTerm(t[2], panForward, <<"sin", p>>),
      PlusTerm(PlusTerm(t[3], panRight, <<"sin", y>>), panForward, <<"cos", y>>)>>

Panned(t, y, p, panRight, panForward) ==
    <<PlusTerm(PlusTerm(t[1], panRight, <<"cos", y>>), -panForward, <<"sin", y>>),
      t[2],
      PlusTerm(PlusTerm(t[3], panRight, <<"sin", y>>), panForward, <<"cos", y>>)>>

cameraFrame == <<fbVars, call, log, rasterVars, renderVars, loadVars, frameVars,
                 calcVars, lineVars>>

\* Lines 47 to 53: the pitch after the rotation, which the left button enables.
RotatedPitch(in) ==
    IF in.left
    THEN clamp(pitch - (in.dy * RotationSpeed * in.frame_time) \div 1000,
               -PitchMax, PitchMax)
    ELSE pitch

\* Lines 56 and 57: the distance after the zoom.
ZoomedDistance_leftOnly(in) ==
    IF in.left
    THEN clamp(distance - (in.wheel_move * ZoomSpeed), DistanceMin, DistanceMax)
    ELSE distance

ZoomedDistance(in) ==
    clamp(distance - (in.wheel_move * ZoomSpeed), DistanceMin, DistanceMax)

\* Camera::update.
CameraUpdate ==
    \E in \in Inputs :
        LET newYaw == IF in.left
                      THEN yaw - (in.dx * RotationSpeed * in.frame_time) \div 1000
                      ELSE yaw
            panRight == (-in.dx * PanSpeed * in.frame_time) \div 1000
            panForward == (in.dy * PanSpeed * in.frame_time) \div 1000
            newTarget == IF in.right
                         THEN Panned(target, newYaw, RotatedPitch(in), panRight, panForward)
                         ELSE target
        IN  /\ Abs(newYaw) <= MaxYaw
            /\ in.right => WithinPanRange(newTarget, newYaw)
            /\ input' = in
            /\ yaw' = newYaw
            /\ pitch' = RotatedPitch(in)
            /\ distance' = ZoomedDistance(in)
            /\ target' = newTarget
            /\ eye' = update_position(target', distance', pitch', yaw')
            /\ UNCHANGED cameraFrame

\* Camera::new.
InitCamera ==
    /\ NewFramebuffer(1, 1)
    /\ call = <<"new", TRUE>>
    /\ log = [color |-> BLACK, writes |-> <<>>]
    /\ NoRaster /\ NoRender /\ NoLoad /\ NoFrame /\ NoCalc /\ NoLine
    /\ yaw = 0
    /\ pitch = 0
    /\ distance = InitialDistance
    /\ target = Origin
    /\ eye = update_position(target, distance, pitch, yaw)
    /\ input = <<>>

NextCamera == CameraUpdate

SpecCamera == InitCamera /\ [][NextCamera]_vars

(***************************************************************************)
(* The view matrix of the camera: create_view_matrix on the values of eye  *)
(* and target, in thousandths.  cos and sin are the sums of their power    *)
(* series, every quotient rounded to the nearest integer.                  *)
(***************************************************************************)
RoundDiv(n, d) == (2 * n + d) \div (2 * d)

\* term - term * a^2 / (k (k + 1)) + ..., a in milliradians, the terms in
\* hundred-thousandths.
RECURSIVE Series(_, _, _)
Series(a, term, k) ==
    IF k > 2 * TrigTerms \/ term = 0 THEN term
    ELSE term + Series(a, RoundDiv(RoundDiv(-term * a, 1000) * a, 1000 * k * (k + 1)),
                       k + 2)

Cos(a) == RoundDiv(Series(a, 100000, 1), 100)
Sin(a) == RoundDiv(Series(a, 100 * a, 2), 100)

TermValue(term) == IF term[1] = "cos" THEN Cos(term[2]) ELSE Sin(term[2])

RECURSIVE SumOfTerms(_, _)
SumOfTerms(component, terms) ==
    IF terms = {} THEN 0
    ELSE LET t == CHOOSE u \in terms : TRUE
         IN  RoundDiv(component[t] * TermValue(t), 1000)
                 + SumOfTerms(component, terms \ {t})

ComponentValue(component) == SumOfTerms(component, DOMAIN component)

\* The value of a component of eye as update_position wrote it.
ExprValue(e) ==
    LET first == RoundDiv(e[3] * TermValue(<<e[4], e[5]>>), 1000)
    IN  ComponentValue(e[1])
            + (IF Len(e) = 5 THEN first
               ELSE RoundDiv(first * TermValue(<<e[6], e[7]>>), 1000))

EyeValue == [x |-> ExprValue(eye.x), y |-> ExprValue(eye.y), z |-> ExprValue(eye.z)]
TargetValue == [x |-> ComponentValue(target[1]), y |-> ComponentValue(target[2]),
                z |-> ComponentValue(target[3])]

\* Camera.up, set by Camera::new and never written again.
Up == [x |-> 0, y |-> 1000, z |-> 0]

\* f32::sqrt, to the integer below.
RECURSIVE Newton(_, _)
Newton(n, x) ==
    LET y == (x + n \div x) \div 2
    IN  IF y >= x THEN x ELSE Newton(n, y)

Sqrt(n) == IF n = 0 THEN 0 ELSE Newton(n, n)

Length(v) == Sqrt(v.x * v.x + v.y * v.y + v.z * v.z)

\* v / len component by component; a division by 0.0 gives an infinity or a
\* NaN, which nan records.
Normalized(v, len) ==
    IF len = 0 THEN [x |-> 0, y |-> 0, z |-> 0, nan |-> TRUE]
    ELSE [x |-> RoundDiv(1000 * v.x, len), y |-> RoundDiv(1000 * v.y, len),
          z |-> RoundDiv(1000 * v.z, len), nan |-> FALSE]

Cross(a, b) ==
    [x |-> RoundDiv(a.y * b.z - a.z * b.y, 1000),
     y |-> RoundDiv(a.z * b.x - a.x * b.z, 1000),
     z |-> RoundDiv(a.x * b.y - a.y * b.x, 1000)]

\* create_view_matrix down to the second normalization: the two lengths it
\* divides by and the two axes they give.
create_view_matrix(e, t, up) ==
    LET toTarget == [x |-> t.x - e.x, y |-> t.y - e.y, z |-> t.z - e.z]
        forward_length == Length(toTarget)
        forward == Normalized(toTarget, forward_length)
        cross == Cross(forward, up)
        right_length == Length(cross)
        right == IF forward.nan THEN forward ELSE Normalized(cross, right_length)
    IN  [forward_length |-> forward_length, forward |-> forward,
         right_length |-> right_length, right |-> right]

(***************************************************************************)
(* matrix.rs and the color conversion of shaders.rs, as functions.  A      *)
(* Matrix is its four rows, a Vector3 is [x, y, z], every number an f32    *)
(* value as above.  SpecCalc calls one function once on arguments drawn    *)
(* from the sets below.                                                    *)
(***************************************************************************)
Two == <<2, 1>>

Vector3(x, y, z) == [x |-> x, y |-> y, z |-> z]

identity_flippedY ==
    << <<One, Zero, Zero, Zero>>,
       <<Zero, MinusOne, Zero, Zero>>,
       <<Zero, Zero, One, Zero>>,
       <<Zero, Zero, Zero, One>> >>

identity ==
    << <<One, Zero, Zero, Zero>>,
       <<Zero, One, Zero, Zero>>,
       <<Zero, Zero, One, Zero>>,
       <<Zero, Zero, Zero, One>> >>

\* The four sums of transform_vector, each added left to right.
Homogeneous(m, v) ==
    LET Row(i) == FAdd(FAdd(FAdd(FMul(m[i][1], v.x), FMul(m[i][2], v.y)),
                            FMul(m[i][3], v.z)),
                       m[i][4])
    IN  [x |-> Row(1), y |-> Row(2), z |-> Row(3), w |-> Row(4)]

transform_vector(m, v) ==
    LET h == Homogeneous(m, v)
    IN  IF FNe(h.w, Zero)
        THEN Vector3(FDiv(h.x, h.w), FDiv(h.y, h.w), FDiv(h.z, h.w))
        ELSE Vector3(h.x, h.y, h.z)

create_projection_matrix_flippedDepth(tan_half_fov, aspect, near, far) ==
    << <<FDiv(One, FMul(aspect, tan_half_fov)), Zero, Zero, Zero>>,
       <<Zero, FDiv(One, tan_half_fov), Zero, Zero>>,
       <<Zero, Zero, FDiv(FAdd(far, near), FAdd(far, FNeg(near))),
         FDiv(FMul(FMul(Two, far), near), FAdd(far, FNeg(near)))>>,
       <<Zero, Zero, MinusOne, Zero>> >>

\* create_projection_matrix, given tan(fov_y / 2).
create_projection_matrix(tan_half_fov, aspect, near, far) ==
    << <<FDiv(One, FMul(aspect, tan_half_fov)), Zero, Zero, Zero>>,
       <<Zero, FDiv(One, tan_half_fov), Zero, Zero>>,
       <<Zero, Zero, FDiv(FNeg(FAdd(far, near)), FAdd(far, FNeg(near))),
         FDiv(FNeg(FMul(FMul(Two, far), near)), FAdd(far, FNeg(near)))>>,
       <<Zero, Zero, MinusOne, Zero>> >>

\* create_projection_matrix and transform_vector again, with the result of
\* every operation rounded as the f32 operations round it.
create_projection_matrix_f32(tan_half_fov, aspect, near, far) ==
    << <<F32Div(One, F32Mul(aspect, tan_half_fov)), Zero, Zero, Zero>>,
       <<Zero, F32Div(One, tan_half_fov), Zero, Zero>>,
       <<Zero, Zero, F32Div(FNeg(F32Add(far, near)), F32Add(far, FNeg(near))),
         F32Div(FNeg(F32Mul(F32Mul(Two, far), near)), F32Add(far, FNeg(near)))>>,
       <<Zero, Zero, MinusOne, Zero>> >>

transform_vector_f32(m, v) ==
    LET Row(i) == F32Add(F32Add(F32Add(F32Mul(m[i][1], v.x), F32Mul(m[i][2], v.y)),
                                F32Mul(m[i][3], v.z)),
                         m[i][4])
        w == Row(4)
    IN  IF FNe(w, Zero)
        THEN Vector3(F32Div(Row(1), w), F32Div(Row(2), w), F32Div(Row(3), w))
        ELSE Vector3(Row(1), Row(2), Row(3))

create_viewport_matrix_noFlip(x, y, w, h) ==
    << <<FDiv(w, Two), Zero, Zero, FAdd(x, FDiv(w, Two))>>,
       <<Zero, FDiv(h, Two), Zero, FAdd(y, FDiv(h, Two))>>,
       <<Zero, Zero, One, Zero>>,
       <<Zero, Zero, Zero, One>> >>

create_viewport_matrix(x, y, w, h) ==
    LET half_width == FDiv(w, Two)
        half_height == FDiv(h, Two)
    IN  << <<half_width, Zero, Zero, FAdd(x, half_width)>>,
           <<Zero, FNeg(half_height), Zero, FAdd(y, half_height)>>,
           <<Zero, Zero, One, Zero>>,
           <<Zero, Zero, Zero, One>> >>

\* RingShader::fragment_shader, the red channel: color.r scaled by the band
\* pattern, plus the sparkle.
RingRed(r, band_pattern, sparkle) ==
    FAdd(FMul(r, FAdd(<<7, 10>>, FMul(band_pattern, <<3, 10>>))), sparkle)

\* The f32 values the functions are tried on.
Tiny == <<1, 100000>>
Floats == {<<-1, 1>>, Zero, <<1, 2>>, <<3, 1>>, <<1, 0>>, <<-1, 0>>, <<0, 0>>}
NdcXs == {<<-1, 1>>, <<-1, 2>>, Zero, One}
NdcZs == {Zero, <<1, 2>>}
Widths == {<<1, 1>>, <<2, 1>>, <<1024, 1>>}
Heights == {<<1, 1>>, <<3, 1>>, <<768, 1>>}
Projection == create_projection_matrix(<<1, 2>>, <<4, 3>>, One, <<3, 1>>)
Matrices == {identity, Projection,
             [Projection EXCEPT ![4] = <<Zero, Zero, Zero, Zero>>]}
ViewZs == {Zero, FNeg(Tiny), <<-1, 2>>, <<-5, 1>>, Tiny}
Channels == {<<-1, 2>>, Zero, <<1, 510>>, <<1, 2>>, <<254, 255>>, One, <<257, 255>>,
             <<3, 2>>, <<300, 1>>, <<1, 0>>, <<-1, 0>>, <<0, 0>>}
BandPatterns == {Zero, <<1, 2>>, One}
Sparkles == {Zero, <<1, 2>>}

\* Near and far planes, and distances from the eye between them; all of them
\* numbers a significand of four bits holds.
Planes == {<<One, <<8, 1>>>>, <<One, <<4, 1>>>>, <<<<1, 2>>, <<8, 1>>>>}
Distances == {<<k, 4>> : k \in {2, 4, 5, 6, 7, 8, 10, 12, 13, 14, 15, 16, 20, 22, 24,
                                 26, 28, 30, 32}}

\* The depth the pipeline gives a point straight ahead at distance d: exact,
\* and as the f32 operations compute it.
ProjectedDepth(near, far, d) ==
    transform_vector(create_projection_matrix(<<1, 2>>, <<4, 3>>, near, far),
                     Vector3(Zero, Zero, FNeg(d))).z

ProjectedDepth_f32(near, far, d) ==
    transform_vector_f32(create_projection_matrix_f32(<<1, 2>>, <<4, 3>>, near, far),
                         Vector3(Zero, Zero, FNeg(d))).z

\* The colours of the two fragments, both different from the cleared pixel.
NearColor == WHITE
FarColor == CHOOSE c \in Colors : c \notin {BLACK, WHITE}

CalcArgs ==
    [fn : {"create_viewport_matrix"}, width : Widths, height : Heights,
     v : [x : NdcXs, y : NdcXs, z : NdcZs]]
    \cup [fn : {"identity"}, v : [x : Floats, y : Floats, z : Floats]]
    \cup [fn : {"transform_vector"}, m : Matrices,
          v : [x : {One}, y : {<<-2, 1>>}, z : ViewZs]]
    \cup [fn : {"to_raylib_color"}, c : Channels]
    \cup [fn : {"create_sphere"}, rings : 1..MaxRings, sectors : 1..MaxSectors]
    \cup {a \in [fn : {"depth_test"}, planes : Planes, d1 : Distances,
                  d2 : Distances, first : {"nearer", "farther"}] :
              /\ ~FLt(a.d1, a.planes[1]) /\ FLt(a.d1, a.d2)
              /\ ~FLt(a.planes[2], a.d2)}
    \cup [fn : {"ring"}, r : {Zero, <<1, 2>>, One}, band_pattern : BandPatterns,
          sparkle : Sparkles]

calcFrame == <<fbVars, call, log, rasterVars, renderVars, loadVars, frameVars,
               cameraVars, lineVars, arg>>

\* viewport_matrix.transform_vector(v), as render_planet_software calls it.
CalcViewport ==
    /\ arg.fn = "create_viewport_matrix" /\ ret = <<>>
    /\ ret' = <<transform_vector(
                    create_viewport_matrix(Zero, Zero, arg.width, arg.height), arg.v)>>
    /\ UNCHANGED calcFrame

CalcIdentity ==
    /\ arg.fn = "identity" /\ ret = <<>>
    /\ ret' = <<transform_vector(identity, arg.v)>>
    /\ UNCHANGED calcFrame

CalcTransform ==
    /\ arg.fn = "transform_vector" /\ ret = <<>>
    /\ ret' = <<transform_vector(arg.m, arg.v)>>
    /\ UNCHANGED calcFrame

CalcColor ==
    /\ arg.fn = "to_raylib_color" /\ ret = <<>>
    /\ ret' = <<to_raylib_color(arg.c)>>
    /\ UNCHANGED calcFrame

\* The color render_rings draws a segment with.
CalcRingColor ==
    /\ arg.fn = "ring" /\ ret = <<>>
    /\ ret' = <<to_raylib_color(RingRed(arg.r, arg.band_pattern, arg.sparkle))>>
    /\ UNCHANGED calcFrame

CalcSphere ==
    /\ arg.fn = "create_sphere" /\ ret = <<>>
    /\ ret' = <<create_sphere(arg.rings, arg.sectors)>>
    /\ UNCHANGED calcFrame

\* Two fragments of one pixel, from points at distances d1 < d2, written with
\* set_pixel_with_depth in either order on the cleared 1 x 1 buffer.
CalcDepthTest ==
    /\ arg.fn = "depth_test" /\ ret = <<>>
    /\ LET z1 == ProjectedDepth_f32(arg.planes[1], arg.planes[2], arg.d1)
           z2 == ProjectedDepth_f32(arg.planes[1], arg.planes[2], arg.d2)
           fb0 == <<pixels, zbuffer>>
           fb == IF arg.first = "nearer"
                 THEN set_pixel_with_depth_on(
                          set_pixel_with_depth_on(fb0, 0, 0, NearColor, z1),
                          0, 0, FarColor, z2)
                 ELSE set_pixel_with_depth_on(
                          set_pixel_with_depth_on(fb0, 0, 0, FarColor, z2),
                          0, 0, NearColor, z1)
       IN  ret' = <<[z1 |-> z1, z2 |-> z2, color |-> fb[1][0], depth |-> fb[2][0]]>>
    /\ UNCHANGED calcFrame

InitCalc ==
    /\ NewFramebuffer(1, 1)
    /\ call = <<"new", TRUE>>
    /\ log = [color |-> BLACK, writes |-> <<>>]
    /\ NoRaster /\ NoRender /\ NoLoad /\ NoFrame /\ NoCamera /\ NoLine
    /\ arg \in CalcArgs
    /\ ret = <<>>

NextCalc ==
    \/ CalcViewport
    \/ CalcIdentity
    \/ CalcTransform
    \/ CalcColor
    \/ CalcRingColor
    \/ CalcSphere
    \/ CalcDepthTest

SpecCalc == InitCalc /\ [][NextCalc]_vars

(***************************************************************************)
(* Spec: the frame buffer under every sequence of calls.                   *)
(***************************************************************************)
Init ==
    /\ \E d \in Dims : NewFramebuffer(d[1], d[2])
    /\ call = <<"new", TRUE>>
    /\ log = [color |-> BLACK, writes |-> <<>>]
    /\ NoRaster
    /\ NoRender
    /\ NoLoad
    /\ NoFrame /\ NoCalc /\ NoCamera /\ NoLine

DoClear ==
    \E c \in Colors :
        clear(c) /\ call' = <<"clear", TRUE>>

DoSetCurrentColor ==
    \E c \in Colors :
        set_current_color(c) /\ call' = <<"set_current_color", TRUE>>

DoSetPixel ==
    \E x \in U32Xs, y \in U32Ys :
        set_pixel(x, y) /\ call' = <<"set_pixel", x < width /\ y < height>>

DoSetPixelColor ==
    \E x \in U32Xs, y \in U32Ys, c \in Colors :
        set_pixel_color(x, y, c) /\ call' = <<"set_pixel_color", x < width /\ y < height>>

DoSetPixelWithDepth ==
    \E x \in U32Xs, y \in U32Ys, c \in Colors, d \in Depths :
        set_pixel_with_depth(x, y, c, d) /\ call' = <<"set_pixel_with_depth", x < width /\ y < height>>

DoPoint ==
    \E x \in I32Xs, y \in I32Ys, c \in Colors :
        point(x, y, c) /\ call' = <<"point", x >= 0 /\ x < width /\ y >= 0 /\ y < height>>

DoPointWithDepth ==
    \E x \in I32Xs, y \in I32Ys, c \in Colors, d \in Depths :
        point_with_depth(x, y, c, d) /\ call' = <<"point_with_depth", x >= 0 /\ x < width /\ y >= 0 /\ y < height>>

DoWriteFragment ==
    \E x \in I32Xs, y \in I32Ys, c \in Colors, d \in Depths :
        write_fragment(x, y, c, d) /\ call' = <<"write_fragment", x >= 0 /\ x < width /\ y >= 0 /\ y < height>>

Next ==
    \/ DoClear /\ UNCHANGED <<log, rasterVars, renderVars, loadVars, frameVars, otherVars>>
    \/ DoSetCurrentColor /\ UNCHANGED <<log, rasterVars, renderVars, loadVars, frameVars, otherVars>>
    \/ DoSetPixel /\ UNCHANGED <<log, rasterVars, renderVars, loadVars, frameVars, otherVars>>
    \/ DoSetPixelColor /\ UNCHANGED <<log, rasterVars, renderVars, loadVars, frameVars, otherVars>>
    \/ DoSetPixelWithDepth /\ UNCHANGED <<log, rasterVars, renderVars, loadVars, frameVars, otherVars>>
    \/ DoPoint /\ UNCHANGED <<log, rasterVars, renderVars, loadVars, frameVars, otherVars>>
    \/ DoPointWithDepth /\ UNCHANGED <<log, rasterVars, renderVars, loadVars, frameVars, otherVars>>
    \/ DoWriteFragment /\ UNCHANGED <<log, rasterVars, renderVars, loadVars, frameVars, otherVars>>

Spec == Init /\ [][Next]_vars

(***************************************************************************)
(* SpecDepth: one frame after another on a one-pixel frame buffer, each a  *)
(* clear followed by depth-tested writes, with the writes to the pixel     *)
(* kept in log.                                                            *)
(***************************************************************************)
InitDepth ==
    /\ NewFramebuffer(1, 1)
    /\ call = <<"new", TRUE>>
    /\ log = [color |-> BLACK, writes |-> <<>>]
    /\ NoRaster
    /\ NoRender
    /\ NoLoad
    /\ NoFrame /\ NoCalc /\ NoCamera /\ NoLine

DepthClear ==
    \E c \in Colors :
        /\ clear(c)
        /\ call' = <<"clear", TRUE>>
        /\ log' = [color |-> c, writes |-> <<>>]

DepthWrite ==
    /\ call[1] # "new"
    /\ Len(log.writes) < MaxLog
    /\ \E x \in U32Xs, y \in U32Ys, c \in Colors, d \in Depths :
        /\ set_pixel_with_depth(x, y, c, d)
        /\ call' = <<"set_pixel_with_depth", x < width /\ y < height>>
        /\ log' = IF x < width /\ y < height
                    THEN [log EXCEPT !.writes = Append(@, <<c, d>>)]
                    ELSE log

NextDepth ==
    \/ DepthClear /\ UNCHANGED <<rasterVars, renderVars, loadVars, frameVars, otherVars>>
    \/ DepthWrite /\ UNCHANGED <<rasterVars, renderVars, loadVars, frameVars, otherVars>>

SpecDepth == InitDepth /\ [][NextDepth]_vars

(***************************************************************************)
(* Claims about the frame buffer.                                          *)
(***************************************************************************)

\* C1: for an in-range pixel, set_pixel_with_depth(x, y, color, depth) writes
\* iff depth is strictly less than the depth stored for the pixel; when it
\* writes, the pixel's color and depth become the fragment's, and when it
\* does not, neither changes (an equal depth keeps the earlier fragment).
C1_DepthTestedWrite ==
    [][call' = <<"set_pixel_with_depth", TRUE>> =>
        \A x \in U32Xs, y \in U32Ys, c \in Colors, d \in Depths :
            (x < width /\ y < height /\ set_pixel_with_depth(x, y, c, d)) =>
                LET i == y * width + x
                    stored == zbuffer[i]
                    less == d # NAN /\ d[1] * stored[2] < stored[1] * d[2]
                IN  IF less
                      THEN pixels'[i] = c /\ zbuffer'[i] = d
                      ELSE pixels'[i] = pixels[i] /\ zbuffer'[i] = zbuffer[i]]_vars

\* C1 witness: a depth-tested write has passed and a second one, to a pixel
\* that already holds a finite depth, has just been made.
C1_Witness ==
    /\ call = <<"set_pixel_with_depth", TRUE>>
    /\ \A i \in DOMAIN zbuffer : zbuffer[i] # INFINITY /\ pixels[i] # BLACK

\* The minimum of the depths of a non-empty sequence of writes, by f32::min.
RECURSIVE MinDepth(_)
MinDepth(ws) ==
    IF Len(ws) = 1 THEN ws[1][2]
    ELSE FMin(MinDepth(SubSeq(ws, 1, Len(ws) - 1)), ws[Len(ws)][2])

\* The earliest write of the sequence that has depth d.
Earliest(ws, d) ==
    ws[CHOOSE k \in 1..Len(ws) :
          ws[k][2] = d /\ \A j \in 1..(k - 1) : ws[j][2] # d]

\* C2 as stated: after a clear and any depth-tested writes to one pixel, the
\* stored depth is the minimum of the depths written and the stored color is
\* that of the earliest-written fragment with that minimum depth.
C2_MinOfAllWrites ==
    log.writes # <<>> =>
        /\ zbuffer[0] = MinDepth(log.writes)
        /\ pixels[0] = Earliest(log.writes, MinDepth(log.writes))[1]

\* The writes of the sequence that can pass a depth test: depth below +infinity.
Storable(ws) == SelectSeq(ws, LAMBDA w : FLt(w[2], INFINITY))

\* C2 amended: a fragment whose depth is +infinity or NaN is never stored.
\* After a clear and any depth-tested writes to one pixel, if no written
\* depth is below +infinity the pixel keeps the clear color and depth
\* +infinity; otherwise the stored depth is the minimum of the written
\* depths below +infinity and the stored color is that of the
\* earliest-written fragment with that depth.
C2_MinOfStorableWrites ==
    call[1] # "new" =>
        IF Storable(log.writes) = <<>>
          THEN zbuffer[0] = INFINITY /\ pixels[0] = log.color
          ELSE /\ zbuffer[0] = MinDepth(Storable(log.writes))
               /\ pixels[0] = Earliest(log.writes, MinDepth(Storable(log.writes)))[1]

\* C2 witness: A at some depth, then B nearer, then C farther leave color B;
\* the pixel holds B although C was written last.
C2_Witness ==
    /\ Len(log.writes) = 3
    /\ FLt(log.writes[2][2], log.writes[1][2])
    /\ FLt(log.writes[2][2], log.writes[3][2])
    /\ FLt(log.writes[3][2], INFINITY)
    /\ log.writes[1][1] # log.writes[2][1]
    /\ log.writes[3][1] # log.writes[2][1]
    /\ pixels[0] = log.writes[2][1]
    /\ zbuffer[0] = log.writes[2][2]

\* C3 as stated: clear(color) followed immediately by get_pixel(x, y) returns
\* color for every coordinate (x, y), and every stored depth is +infinity.
C3_ClearThenGetAnyCoordinate ==
    [][call' = <<"clear", TRUE>> =>
        \A c \in Colors :
            clear(c) =>
                /\ \A x \in U32Xs, y \in U32Ys : get_pixel(x, y)' = c
                /\ \A i \in DOMAIN zbuffer' : zbuffer'[i] = INFINITY]_vars

\* C3 amended: from any reachable state, clear(color) followed immediately by
\* get_pixel(x, y) returns color for every in-range coordinate (x < width and
\* y < height) and BLACK for every other coordinate, and the stored depth of
\* every pixel is +infinity.
C3_ClearThenGetInRange ==
    [][call' = <<"clear", TRUE>> =>
        \A c \in Colors :
            clear(c) =>
                /\ \A x \in U32Xs, y \in U32Ys :
                      get_pixel(x, y)' = IF x < width /\ y < height THEN c ELSE BLACK
                /\ DOMAIN zbuffer' = 0..(width * height - 1)
                /\ \A i \in DOMAIN zbuffer' : zbuffer'[i] = INFINITY]_vars

\* C3 witness: a clear with a color other than BLACK has just been made.
C3_Witness ==
    /\ call = <<"clear", TRUE>>
    /\ width * height = 2
    /\ \A i \in DOMAIN pixels : pixels[i] = WHITE /\ zbuffer[i] = INFINITY

\* C4: a pixel write whose coordinate is out of range (x >= width or
\* y >= height, or negative where the coordinate is signed) leaves the color
\* array and the depth array unchanged, for set_pixel, set_pixel_color,
\* set_pixel_with_depth, point, point_with_depth and the render loop's write.
C4_OutOfRangeIsNoOp ==
    [][(/\ call'[1] \in {"set_pixel", "set_pixel_color", "set_pixel_with_depth",
                         "point", "point_with_depth", "write_fragment"}
        /\ call'[2] = FALSE)
        => UNCHANGED <<pixels, zbuffer>>]_vars

\* C4 witness: an out-of-range write has just been made to a frame buffer
\* that holds written pixels.
C4_Witness ==
    /\ call[2] = FALSE
    /\ \E i \in DOMAIN pixels : pixels[i] # BLACK /\ zbuffer[i] # INFINITY

\* C5: set_pixel_color(x, y, color) on an in-range pixel replaces the stored
\* color whatever depth is stored there, and leaves the depth array unchanged.
C5_UnconditionalWrite ==
    [][call' = <<"set_pixel_color", TRUE>> =>
        \A x \in U32Xs, y \in U32Ys, c \in Colors :
            (x < width /\ y < height /\ set_pixel_color(x, y, c)) =>
                /\ pixels'[y * width + x] = c
                /\ zbuffer' = zbuffer]_vars

\* C5 witness: the only pixel holds the nearest depth written and has just
\* been recolored by set_pixel_color.
C5_Witness ==
    /\ call = <<"set_pixel_color", TRUE>>
    /\ width * height = 1
    /\ zbuffer[0] = <<0, 1>>
    /\ pixels[0] = WHITE

(***************************************************************************)
(* Claims about the rasterizer.                                            *)
(***************************************************************************)
\* The three screen positions lie on one line (or coincide): the signed area
\* of the triangle is zero.
Collinear(a, b, c) == (b.x - a.x) * (c.y - a.y) = (c.x - a.x) * (b.y - a.y)

\* Pixels in and around every bounding box the positions can give.
PixelGrid == (-1)..(CeilPx(MaxCoord) + 1)

Sentinel == <<MinusOne, MinusOne, MinusOne>>

\* The weights of the centre of pixel (x, y) for the triangle rasterized.
Weights(x, y) == barycentric_coordinates(2 * x + 1, 2 * y + 1, tri[1], tri[2], tri[3])

CoveredPixels ==
    {p \in PixelGrid \X PixelGrid :
        LET bc == Weights(p[1], p[2])
        IN  /\ bc[1][1] * bc[1][2] >= 0
            /\ bc[2][1] * bc[2][2] >= 0
            /\ bc[3][1] * bc[3][2] >= 0}

HasBadIndex(i) ==
    \E k \in (i + 1)..Min2(i + 3, Len(mesh.indices)) :
        mesh.indices[k] >= Len(mesh.vertices)

\* C6 as stated: a triangle that has an index >= vertices.len() is skipped
\* and rendering continues with the next triangle; for every mesh (any vertex
\* count, any index list) rendering completes without a crash.
C6_BadTriangleSkipped ==
    [][/\ renderPc' # "panicked"
       /\ (renderPc = "triangles" /\ ri < Len(mesh.indices) /\ HasBadIndex(ri))
             => (ri' = ri + 3 /\ UNCHANGED <<pixels, zbuffer>>)]_vars

(***************************************************************************)
(* Claims about mesh loading.                                              *)
(***************************************************************************)
\* C7 as stated: whenever the mesh source fails (missing file, unreadable
\* line, malformed number or face index, no usable vertices), Planet::new
\* does not fail: the failure is an error value and is replaced by
\* create_sphere(1.0, 32, 32), so the planet's mesh is non-empty and equal to
\* the default sphere.
C7_LoadFailureFallsBack ==
    /\ loadPc # "panicked"
    /\ (loadPc = "err" /\ planetPc = "created") =>
          /\ mesh.vertices # <<>>
          /\ mesh.indices # <<>>
          /\ mesh = create_sphere(DefaultRings, DefaultSectors)

(***************************************************************************)
(* Claims about the line walks.                                            *)
(***************************************************************************)
\* Neither x1 - x0 nor y1 - y0 overflows.
DifferencesFit == ~Overflows(line.x1 - line.x0) /\ ~Overflows(line.y1 - line.y0)

\* max(|x1 - x0|, |y1 - y0|) + 1
LinePoints == Max2(Abs(line.x1 - line.x0), Abs(line.y1 - line.y0)) + 1

\* The walk is at its first point, has moved one pixel step at a time since,
\* and ends at (x1, y1) having visited LinePoints points.
WalkOnTrack ==
    /\ walk.pc # "panicked"
    /\ walk.pc = "loop" =>
          /\ walk.n < LinePoints
          /\ walk.n = 0 => (walk.x = line.x0 /\ walk.y = line.y0)
    /\ walk.pc = "done" =>
          /\ walk.n = LinePoints
          /\ walk.x = line.x1 /\ walk.y = line.y1

\* A step of the loop moves x and y by at most 1 each and one of them by 1.
PixelStep ==
    (walk.pc = "loop" /\ walk'.pc = "loop") =>
        /\ Abs(walk'.x - walk.x) <= 1
        /\ Abs(walk'.y - walk.y) <= 1
        /\ walk'.x # walk.x \/ walk'.y # walk.y

\* C20 as stated: for all end points whose differences do not overflow, both
\* walks terminate; the first point visited is (x0, y0), the last is
\* (x1, y1), each step changes x and y by at most 1 each and by 1 in at
\* least one of them, and exactly max(|x1-x0|, |y1-y0|) + 1 points are
\* visited.
C20_WalkVisitsEveryStep ==
    /\ [](DifferencesFit => WalkOnTrack)
    /\ [][DifferencesFit => PixelStep]_vars
    /\ <>(DifferencesFit => walk.pc = "done")

\* What does hold: when 2 * (|x1-x0| + |y1-y0|) does not overflow either, the
\* walk never panics, visits one more point each iteration and stops at
\* (x1, y1) after LinePoints of them.
ErrFits == ~Overflows(2 * (Abs(line.x1 - line.x0) + Abs(line.y1 - line.y0)))

ShortWalkOnTrack == ErrFits => WalkOnTrack

ShortWalkPixelSteps == [][ErrFits => PixelStep]_vars

(***************************************************************************)
(* Claims about the frame loop.                                            *)
(***************************************************************************)
\* The order of the stages of a frame.
FrameStages ==
    {<<"frame", "triangles">>, <<"triangles", "done">>, <<"done", "moon">>,
     <<"moon", "swap">>, <<"swap", "frame">>, <<"frame", "closed">>,
     <<"triangles", "panicked">>, <<"done", "panicked">>}

\* C11: in every iteration of the frame loop the buffer is cleared before
\* any pixel of the frame is written; the writes of the frame (planet
\* triangles, then rings, then moon) all come before the buffer is handed to
\* the display by swap_buffers; nothing is written between the handoff and
\* the next clear; so every pixel handed over holds the clear color or a
\* color written during that frame.
C11_ClearRenderHandoff ==
    [][/\ renderPc' # renderPc => <<renderPc, renderPc'>> \in FrameStages
       /\ pixels' # pixels =>
             \/ /\ renderPc = "frame" /\ renderPc' = "triangles"
                /\ \A i \in DOMAIN pixels' : pixels'[i] = BLACK
             \/ renderPc \in {"triangles", "done", "moon"}
       /\ texture' # texture => (renderPc = "swap" /\ renderPc' = "frame")
       /\ (renderPc = "swap" /\ renderPc' = "frame") =>
             /\ pixels' = pixels
             /\ texture' \in {pixels, <<>>}
             /\ \A i \in DOMAIN pixels :
                   pixels[i] = BLACK \/ <<i, pixels[i]>> \in written]_vars

\* C11 witness: the rings frame has been handed over, with a pixel left at
\* the clear color and a pixel written, after a frame of the moon scene.
C11_Witness ==
    /\ renderPc = "frame"
    /\ scene = 2
    /\ seen[1] # <<>>
    /\ texture # <<>>
    /\ \E i \in DOMAIN texture : texture[i] = BLACK
    /\ \E i \in DOMAIN texture : texture[i] # BLACK /\ <<i, texture[i]>> \in written

C13_PitchWithinLimits == -PitchMax <= pitch /\ pitch <= PitchMax

\* A rotation that would have passed the upper limit and was clamped to it.
C13_Witness ==
    /\ input # <<>>
    /\ input.left /\ input.dy < 0
    /\ pitch = PitchMax

\* C14: distance is always within [1, 20]; every update subtracts
\* wheel_move * zoom_speed and clamps, whatever the mouse buttons are.
C14_ZoomEveryUpdate ==
    /\ [](DistanceMin <= distance /\ distance <= DistanceMax)
    /\ [][LET d == distance - input'.wheel_move * ZoomSpeed
          IN  distance' = IF d < DistanceMin THEN DistanceMin
                          ELSE IF d > DistanceMax THEN DistanceMax
                          ELSE d]_vars

\* An update with no button down that zoomed in to the lower limit.
C14_Witness ==
    /\ input # <<>>
    /\ ~input.left /\ ~input.right
    /\ input.wheel_move > 0
    /\ distance = DistanceMin

\* C15: after Camera::new and after every update, eye is target plus
\* distance times (cos pitch cos yaw, sin pitch, cos pitch sin yaw), of the
\* values the fields have then.
C15_EyeOnSphere ==
    /\ eye.x = <<target[1], "+", distance, "cos", pitch, "cos", yaw>>
    /\ eye.y = <<target[2], "+", distance, "sin", pitch>>
    /\ eye.z = <<target[3], "+", distance, "cos", pitch, "sin", yaw>>

\* An update that rotated, zoomed out and panned at once.
C15_Witness ==
    /\ input # <<>>
    /\ input.left /\ input.right /\ input.wheel_move < 0
    /\ yaw # 0 /\ pitch = -PitchMax
    /\ distance = DistanceMax
    /\ target # Origin
    /\ eye.y = <<NoTerms, "+", DistanceMax, "sin", -PitchMax>>

(***************************************************************************)
(* Claims on the matrix functions and the color conversion, under SpecCalc.*)
(***************************************************************************)
\* C16: create_viewport_matrix(0, 0, width, height) sends the NDC point
\* (-1, -1) to pixel (0, height) and (1, 1) to (width, 0), leaves the depth
\* as it is, and sends a larger NDC y to a smaller pixel y.
C16_ViewportFlipsY ==
    (ret # <<>> /\ arg.fn = "create_viewport_matrix") =>
        LET r == ret[1]
            PixelY(y) ==
                transform_vector(
                    create_viewport_matrix(Zero, Zero, arg.width, arg.height),
                    [arg.v EXCEPT !.y = y]).y
        IN  /\ (arg.v.x = MinusOne /\ arg.v.y = MinusOne)
                => (r.x = Zero /\ r.y = arg.height)
            /\ (arg.v.x = One /\ arg.v.y = One)
                => (r.x = arg.width /\ r.y = Zero)
            /\ r.z = arg.v.z
            /\ \A y \in NdcXs : FLt(arg.v.y, y) => FLt(PixelY(y), r.y)

\* The lower left corner of NDC on a 1024 x 768 viewport, at depth 1/2.
C16_Witness ==
    /\ ret # <<>> /\ arg.fn = "create_viewport_matrix"
    /\ arg.width = <<1024, 1>> /\ arg.height = <<768, 1>>
    /\ arg.v = Vector3(MinusOne, MinusOne, <<1, 2>>)
    /\ ret[1] = Vector3(Zero, <<768, 1>>, <<1, 2>>)

\* v == w on Vector3: the three components equal as f32.
VEq(v, w) == FEq(v.x, w.x) /\ FEq(v.y, w.y) /\ FEq(v.z, w.z)

Finite(f) == f[2] # 0

\* C17, as stated: Matrix::identity().transform_vector(v) equals v for every
\* vector v.
C17_IdentityEveryVector ==
    (ret # <<>> /\ arg.fn = "identity") => VEq(ret[1], arg.v)

\* C17, amended: Matrix::identity().transform_vector(v) equals v for every
\* vector v whose three components are finite; with an infinite or NaN
\* component the three components of the result are NaN.
C17_IdentityFiniteVectors ==
    (ret # <<>> /\ arg.fn = "identity") =>
        IF Finite(arg.v.x) /\ Finite(arg.v.y) /\ Finite(arg.v.z)
        THEN VEq(ret[1], arg.v)
        ELSE ret[1] = Vector3(NAN, NAN, NAN)

\* A finite vector with three different components, returned as it is.
C17_Witness ==
    /\ ret # <<>> /\ arg.fn = "identity"
    /\ arg.v = Vector3(<<3, 1>>, MinusOne, <<1, 2>>)
    /\ ret[1] = arg.v

\* A divisor within Epsilon of zero.
Epsilon == <<1, 1000>>
NearZero(w) == FLt(FNeg(Epsilon), w) /\ FLt(w, Epsilon)

Divided(h) == Vector3(FDiv(h.x, h.w), FDiv(h.y, h.w), FDiv(h.z, h.w))
Undivided(h) == Vector3(h.x, h.y, h.z)

\* C18: transform_vector returns the un-divided (x, y, z) whenever the
\* divisor w is zero or near zero, and (x/w, y/w, z/w) otherwise.
C18_NearZeroFallsBack ==
    (ret # <<>> /\ arg.fn = "transform_vector") =>
        LET h == Homogeneous(arg.m, arg.v)
        IN  ret[1] = IF NearZero(h.w) THEN Undivided(h) ELSE Divided(h)

\* What the code does: only a divisor equal to zero falls back.
ExactZeroFallsBack ==
    (ret # <<>> /\ arg.fn = "transform_vector") =>
        LET h == Homogeneous(arg.m, arg.v)
        IN  ret[1] = IF h.w = Zero THEN Undivided(h) ELSE Divided(h)

\* The projection of a point 1/100000 in front of the eye: x = 3/2 was divided
\* by w = 1/100000.
TinyDivisorDivides ==
    /\ ret # <<>> /\ arg.fn = "transform_vector"
    /\ arg.m = Projection
    /\ Homogeneous(arg.m, arg.v).w = Tiny
    /\ ret[1].x = <<150000, 1>>

\* C19: to_raylib_color never wraps: a channel c with c * 255 >= 255 becomes
\* 255, one with c <= 0 becomes 0, any other becomes c * 255 truncated toward
\* zero; so for the channels of the ring shader, which can exceed 1.0.
C19_ConversionSaturates ==
    (ret # <<>> /\ arg.fn \in {"to_raylib_color", "ring"}) =>
        LET c == IF arg.fn = "ring"
                 THEN RingRed(arg.r, arg.band_pattern, arg.sparkle)
                 ELSE arg.c
            scaled == FMul(c, <<255, 1>>)
        IN  /\ ret[1] \in 0..255
            /\ c # NAN =>
                   ret[1] = IF ~FLt(scaled, <<255, 1>>) THEN 255
                            ELSE IF ~FLt(Zero, c) THEN 0
                            ELSE scaled[1] \div scaled[2]

\* A ring color with a sparkle whose red channel is 3/2, drawn as 255.
C19_Witness ==
    /\ arg.fn = "ring" /\ ret = <<255>>
    /\ RingRed(arg.r, arg.band_pattern, arg.sparkle) = <<3, 2>>

(***************************************************************************)
(* Claims on the ring lines, under SpecLineFair.                           *)
(***************************************************************************)
\* C21: for every pair of end points the casts to i32 can give, the ends of
\* the i32 range included, draw_line_framebuffer computes its differences,
\* err and 2 * err without overflow, does not panic and ends at (x1, y1).
C21_RingLineNeverFatal ==
    /\ [](line.fn = "draw_line_framebuffer" =>
             /\ ~LineLocals(line).ovf
             /\ walk.pc # "panicked"
             /\ walk.pc = "loop" =>
                    (walk.x = line.x1 /\ walk.y = line.y1) \/ ~StepInclusive(walk).ovf)
    /\ <>(line.fn = "draw_line_framebuffer" => walk.pc = "done")

\* A ring segment from a point on screen to one cast to the top of the range
\* panics in a build with overflow checks.
RingLinePanics ==
    /\ line.fn = "draw_line_framebuffer"
    /\ line.x0 = 0 /\ line.y0 = 0 /\ line.x1 = IntMax /\ line.y1 = 0
    /\ walk.pc = "panicked"

\* The same segment in a build without them: the walk is still running after
\* more iterations than the range has values.
RingLineWanders ==
    /\ line.fn = "draw_line_framebuffer"
    /\ ~overflow_checks
    /\ walk.pc = "loop"
    /\ walk.n = MaxIterations

(***************************************************************************)
(* Claims on the frame buffer as a whole, under SpecFrame.                 *)
(***************************************************************************)
\* C22: the color array and the depth array both have length width * height
\* in every state, and no operation (clear, a pixel write, a line, swap_buffers)
\* changes either length, the width or the height.
C22_ArraysKeepTheirLength ==
    /\ [](/\ DOMAIN pixels = 0..(width * height - 1)
          /\ DOMAIN zbuffer = 0..(width * height - 1))
    /\ [][/\ width' = width /\ height' = height
          /\ DOMAIN pixels' = DOMAIN pixels
          /\ DOMAIN zbuffer' = DOMAIN zbuffer]_vars

\* The same as a state predicate, for the other specifications.
ArraysHaveLength ==
    /\ DOMAIN pixels = 0..(width * height - 1)
    /\ DOMAIN zbuffer = 0..(width * height - 1)

\* A frame with ring lines has been cleared, drawn and handed over, and the
\* next one has been cleared.
C22_Witness ==
    /\ renderPc = "triangles"
    /\ texture # <<>>
    /\ seen[2] # <<>>
    /\ \A i \in DOMAIN pixels : pixels[i] = BLACK
    /\ \E i \in DOMAIN texture : texture[i] # BLACK

(***************************************************************************)
(* Claims on the meshes, under SpecLoad.                                   *)
(***************************************************************************)
\* C23: every mesh load_obj returns as Ok is a valid triangle list: each
\* index is < vertices.len() and indices.len() is a multiple of 3, also when
\* a face line names a position that has not been defined.
C23_LoadedMeshIsTriangleList ==
    loadPc = "ok" =>
        /\ \A k \in 1..Len(indices) : indices[k] < Len(vertices)
        /\ Len(indices) % 3 = 0

\* What does hold: every index names a vertex, and there is one per vertex.
LoadedIndicesInRange ==
    /\ Len(indices) = Len(vertices)
    /\ \A k \in 1..Len(indices) : indices[k] = k - 1

\* A file with one position and a face whose corners name it and a position
\* that is not there is loaded as a mesh of fewer than three indices.
PartialFaceLoaded ==
    /\ loadPc = "ok"
    /\ positions = 1
    /\ Len(indices) \in {1, 2}

(***************************************************************************)
(* Claims on create_sphere, under SpecCalc.                                *)
(***************************************************************************)
\* C24: for rings >= 1 and sectors >= 1, create_sphere returns exactly
\* (rings + 1) * (sectors + 1) vertices and 6 * sectors * (rings - 1)
\* indices, a multiple of 3, each index < vertices.len().
C24_SphereIsTriangleList ==
    (arg.fn = "create_sphere" /\ ret # <<>>) =>
        LET m == ret[1]
        IN  /\ Len(m.vertices) = (arg.rings + 1) * (arg.sectors + 1)
            /\ Len(m.indices) = 6 * arg.sectors * (arg.rings - 1)
            /\ Len(m.indices) % 3 = 0
            /\ \A k \in 1..Len(m.indices) :
                   m.indices[k] >= 0 /\ m.indices[k] < Len(m.vertices)

\* A sphere of three rings and four sectors: 20 vertices, 48 indices, the
\* last of them naming the last vertex of the third row.
C24_Witness ==
    /\ arg.fn = "create_sphere" /\ ret # <<>>
    /\ arg.rings = 3 /\ arg.sectors = 4
    /\ Len(ret[1].vertices) = 20
    /\ Len(ret[1].indices) = 48
    /\ ret[1].indices[48] = 14

(***************************************************************************)
(* Claims on the projected depth, under SpecCalc.                          *)
(***************************************************************************)
\* C25, as stated: for near < far and two points in front of the camera at
\* distances d1 < d2 within [near, far], the depth after the projection and
\* the divide has depth(d1) < depth(d2), near maps to -1 and far to +1, and
\* over the same pixel the nearer point wins the depth test in either draw
\* order.
C25_NearerAlwaysWins ==
    (arg.fn = "depth_test" /\ ret # <<>>) =>
        /\ FLt(ret[1].z1, ret[1].z2)
        /\ ProjectedDepth(arg.planes[1], arg.planes[2], arg.planes[1]) = MinusOne
        /\ ProjectedDepth(arg.planes[1], arg.planes[2], arg.planes[2]) = One
        /\ ret[1].color = NearColor

\* C25, amended: computed without rounding the depth is strictly increasing
\* in the distance, with near at -1 and far at +1; of two fragments of one
\* pixel the one whose f32 depth is strictly smaller wins in either draw
\* order, and when the two f32 depths are equal the one drawn first wins.
C25_SmallerDepthWins ==
    (arg.fn = "depth_test" /\ ret # <<>>) =>
        /\ FLt(ProjectedDepth(arg.planes[1], arg.planes[2], arg.d1),
               ProjectedDepth(arg.planes[1], arg.planes[2], arg.d2))
        /\ ProjectedDepth(arg.planes[1], arg.planes[2], arg.planes[1]) = MinusOne
        /\ ProjectedDepth(arg.planes[1], arg.planes[2], arg.planes[2]) = One
        /\ ret[1].color = IF FLt(ret[1].z1, ret[1].z2) THEN NearColor
                          ELSE IF FLt(ret[1].z2, ret[1].z1) THEN FarColor
                          ELSE IF arg.first = "nearer" THEN NearColor
                          ELSE FarColor
        /\ ret[1].depth = FMin(ret[1].z1, ret[1].z2)

\* Two distances whose depths round to the same f32: the farther point, drawn
\* first, keeps the pixel.
C25_Witness ==
    /\ arg.fn = "depth_test" /\ ret # <<>>
    /\ arg.first = "farther"
    /\ ret[1].z1 = ret[1].z2
    /\ ret[1].color = FarColor

\* Two distances whose f32 depths come out in the opposite order: the farther
\* point wins in either draw order.
DepthsInverted ==
    /\ arg.fn = "depth_test" /\ ret # <<>>
    /\ arg.first = "farther"
    /\ FLt(ret[1].z2, ret[1].z1)
    /\ ret[1].color = FarColor

\* Two distances far enough apart: the nearer point, drawn last, wins.
DepthsOrdered ==
    /\ arg.fn = "depth_test" /\ ret # <<>>
    /\ arg.first = "farther"
    /\ FLt(ret[1].z1, ret[1].z2)
    /\ ret[1].color = NearColor

(***************************************************************************)
(* Claims on what Camera::update changes, under SpecCamera.                *)
(***************************************************************************)
\* The pan amounts of an update with inputs in.
PanRightAmount(in) == (-in.dx * PanSpeed * in.frame_time) \div 1000
PanForwardAmount(in) == (in.dy * PanSpeed * in.frame_time) \div 1000

\* C26: an update changes only what its inputs select.  With the pan button
\* held target moves by right * (-dx * pan_speed * dt) +
\* forward * (dy * pan_speed * dt), right = (cos yaw, 0, sin yaw) and
\* forward = (-sin yaw, 0, cos yaw) taken at the camera's yaw, its height
\* stays, and without the pan button target stays; panning alone leaves yaw,
\* pitch and distance as they were; without the rotate button yaw and pitch
\* stay whatever the pointer delta; with no button and no wheel movement
\* yaw, pitch, distance, target and eye all stay.
C26_UpdateChangesWhatInputsSelect ==
    [][LET in == input'
       IN  /\ in.right =>
                 /\ target'[1] = PlusTerm(PlusTerm(target[1], PanRightAmount(in),
                                                   <<"cos", yaw'>>),
                                          -PanForwardAmount(in), <<"sin", yaw'>>)
                 /\ target'[3] = PlusTerm(PlusTerm(target[3], PanRightAmount(in),
                                                   <<"sin", yaw'>>),
                                          PanForwardAmount(in), <<"cos", yaw'>>)
                 /\ target'[2] = target[2]
           /\ ~in.right => target' = target
           /\ (in.right /\ ~in.left /\ in.wheel_move = 0) =>
                 /\ yaw' = yaw /\ pitch' = pitch /\ distance' = distance
           /\ ~in.left => (yaw' = yaw /\ pitch' = pitch)
           /\ (~in.left /\ ~in.right /\ in.wheel_move = 0) =>
                 /\ yaw' = yaw /\ pitch' = pitch /\ distance' = distance
                 /\ target' = target /\ eye' = eye
      ]_vars

\* An update away from yaw 0 that panned both sideways and forward, with the
\* rotate button up and the pointer moving.
C26_Witness ==
    /\ input # <<>>
    /\ input.right /\ ~input.left
    /\ input.dx # 0 /\ input.dy # 0
    /\ yaw # 0
    /\ <<"sin", yaw>> \in DOMAIN target[1]
    /\ <<"cos", yaw>> \in DOMAIN target[1]
    /\ target[2] = NoTerms

C28_WriteChangesOnePixel ==
    /\ [](\A x \in U32Xs, y \in U32Ys :
            InRange(x, y) =>
                /\ Index(x, y) < width * height
                /\ Index(x, y) \in DOMAIN pixels /\ Index(x, y) \in DOMAIN zbuffer
                /\ \A x2 \in U32Xs, y2 \in U32Ys :
                      (InRange(x2, y2) /\ <<x, y>> # <<x2, y2>>)
                          => Index(x, y) # Index(x2, y2))
    /\ [][\A x \in U32Xs, y \in U32Ys :
            (/\ InRange(x, y)
             /\ \/ call'[1] = "set_pixel" /\ set_pixel(x, y)
                \/ call'[1] = "set_pixel_color"
                     /\ \E c \in Colors : set_pixel_color(x, y, c)
                \/ call'[1] = "set_pixel_with_depth"
                     /\ \E c \in Colors, d \in Depths : set_pixel_with_depth(x, y, c, d))
            => /\ DOMAIN pixels' = DOMAIN pixels /\ DOMAIN zbuffer' = DOMAIN zbuffer
               /\ \A i \in DOMAIN pixels \ {y * width + x} :
                     pixels'[i] = pixels[i] /\ zbuffer'[i] = zbuffer[i]
               /\ call'[1] # "set_pixel_with_depth" => zbuffer' = zbuffer
         ]_vars

\* On the frame buffer of two rows, a depth-tested write to (0, 1) that
\* passed: index 1 has the new color and depth, index 0 is as clear left it.
C28_Witness ==
    /\ call = <<"set_pixel_with_depth", TRUE>>
    /\ width = 1 /\ height = 2
    /\ pixels[0] = BLACK /\ zbuffer[0] = INFINITY
    /\ pixels[1] = WHITE /\ zbuffer[1] = <<0, 1>>

(***************************************************************************)
(* Claims on the rings of a frame, under SpecFrame.                        *)
(***************************************************************************)
\* The indices of the pixels in range that the walk of draw_line_framebuffer
\* passes from w on.
RECURSIVE WalkVisits(_, _)
WalkVisits(l, w) ==
    LET here == IF w.x >= 0 /\ w.x < width /\ w.y >= 0 /\ w.y < height
                  THEN {w.y * width + w.x} ELSE {}
        st == StepInclusive(w)
    IN  IF (w.x = l.x1 /\ w.y = l.y1) \/ w.n >= MaxIterations THEN here
        ELSE here \cup WalkVisits(l, [w EXCEPT !.x = st.x, !.y = st.y,
                                               !.err = st.err, !.n = @ + 1])

\* The same for ring segment k of the scene.
RingVisits(k) ==
    LET r == Scenes[scene].ring_segments[k]
        l == [fn |-> "draw_line_framebuffer", x0 |-> AsI32(r.start[1]),
              y0 |-> AsI32(r.start[2]), x1 |-> AsI32(r.end[1]), y1 |-> AsI32(r.end[2])]
        loc == LineLocals(l)
    IN  WalkVisits(l, [x |-> l.x0, y |-> l.y0, err |-> loc.err, dx |-> loc.dx,
                       dy |-> loc.dy, sx |-> loc.sx, sy |-> loc.sy, n |-> 0])

RingSegments == 1..Len(Scenes[scene].ring_segments)

\* C29: in a frame of a planet with rings the ring segments are drawn after
\* the last planet triangle and without a depth test: drawing a segment
\* leaves the depth array as the triangles left it, and when the frame is
\* handed over every pixel a segment's walk passed holds the color of the
\* last segment that passed it, whatever depth a planet fragment stored
\* there.
C29_RingsDrawnOver ==
    /\ []((renderPc = "swap" /\ Scenes[scene].has_rings) =>
            \A i \in DOMAIN pixels :
               \A k \in RingSegments :
                  (/\ i \in RingVisits(k)
                   /\ \A later \in RingSegments : later > k => i \notin RingVisits(later))
                  => pixels[i] = to_raylib_color(Scenes[scene].ring_segments[k].color))
    /\ [][(Scenes[scene].has_rings /\ renderPc \in {"done", "moon"}) =>
             /\ zbuffer' = zbuffer
             /\ seg' # seg =>
                   /\ renderPc = "done"
                   /\ ri >= Len(mesh.indices)]_vars

\* A frame with rings at its handoff, where two segments of different colors
\* passed a pixel that a planet fragment had written with its depth: the
\* pixel holds the color of the later segment and the fragment's depth.
C29_Witness ==
    /\ renderPc = "swap" /\ Scenes[scene].has_rings
    /\ \E i \in DOMAIN pixels, k \in RingSegments, earlier \in RingSegments :
          /\ earlier < k
          /\ i \in RingVisits(k) /\ i \in RingVisits(earlier)
          /\ zbuffer[i] # INFINITY
          /\ pixels[i] = to_raylib_color(Scenes[scene].ring_segments[k].color)
          /\ pixels[i] # to_raylib_color(Scenes[scene].ring_segments[earlier].color)

(***************************************************************************)
(* Claims on the order of the vertices, under SpecRaster.                  *)
(***************************************************************************)
\* The six orders of three vertices.
Orders == {<<1, 2, 3>>, <<1, 3, 2>>, <<2, 1, 3>>, <<2, 3, 1>>, <<3, 1, 2>>, <<3, 2, 1>>}

\* The fragments of a call as a set: pixel, depth and color.
FragmentSet(fs) == {fs[i] : i \in DOMAIN fs}

\* Twice the signed area of tri on the screen: its sign is the winding.
Winding ==
    (tri[2].y - tri[3].y) * (tri[1].x - tri[3].x)
        + (tri[3].x - tri[2].x) * (tri[1].y - tri[3].y)

\* C30, as stated: triangle() called with any permutation of three
\* transformed vertices emits the same set of pixels, with the same
\* interpolated depth and color at each pixel.
C30_AnyOrderSameFragments ==
    rpc = "done" =>
        \A o \in Orders :
            FragmentSet(triangle_f32(tri[o[1]], tri[o[2]], tri[o[3]]))
                = FragmentSet(triangle_f32(tri[1], tri[2], tri[3]))

\* Whether the centre of pixel (x, y) is in the triangle or on its border.
Covers(v1, v2, v3, x, y) ==
    LET area == (v2.y - v3.y) * (v1.x - v3.x) + (v3.x - v2.x) * (v1.y - v3.y)
        Side(a, b) == ((b.x - a.x) * (2 * y + 1 - a.y)
                          - (b.y - a.y) * (2 * x + 1 - a.x)) * area
    IN  area # 0 /\ Side(v1, v2) >= 0 /\ Side(v2, v3) >= 0 /\ Side(v3, v1) >= 0

\* C30, amended: computed without rounding, triangle() emits for every
\* permutation of the three vertices the same set of pixels with the same
\* depth and color at each, and whatever the winding these are the pixels
\* whose centre the triangle covers: nothing is culled.
C30_AnyOrderSameExactFragments ==
    rpc = "done" =>
        /\ \A o \in Orders :
               FragmentSet(triangle(tri[o[1]], tri[o[2]], tri[o[3]]))
                   = FragmentSet(fragments)
        /\ \A x \in Coords, y \in Coords :
               Covers(tri[1], tri[2], tri[3], x, y)
                   <=> \E i \in DOMAIN fragments :
                          fragments[i].x = x /\ fragments[i].y = y

\* A clockwise triangle (negative area) that covers pixels, one of them with
\* its centre on an edge, at different depths.
C30_Witness ==
    /\ rpc = "done"
    /\ Winding < 0
    /\ Len(fragments) >= 2
    /\ \E i \in DOMAIN fragments :
          \E k \in 1..3 :
             barycentric_coordinates(2 * fragments[i].x + 1, 2 * fragments[i].y + 1,
                                     tri[1], tri[2], tri[3])[k] = Zero
    /\ \E i, j \in DOMAIN fragments : fragments[i].depth # fragments[j].depth

\* With the f32 operations: a pixel emitted for one order and not for another.
OrdersDifferInPixels ==
    /\ rpc = "done"
    /\ \E o \in Orders :
          {<<f.x, f.y>> : f \in FragmentSet(triangle_f32(tri[o[1]], tri[o[2]], tri[o[3]]))}
              # {<<f.x, f.y>> : f \in FragmentSet(triangle_f32(tri[1], tri[2], tri[3]))}

\* With the f32 operations: the same pixels for two orders, at another depth.
OrdersDifferInDepth ==
    /\ rpc = "done"
    /\ \E o \in Orders :
          LET other == FragmentSet(triangle_f32(tri[o[1]], tri[o[2]], tri[o[3]]))
              given == FragmentSet(triangle_f32(tri[1], tri[2], tri[3]))
          IN  /\ {<<f.x, f.y>> : f \in other} = {<<f.x, f.y>> : f \in given}
              /\ \E f \in other, g \in given :
                    f.x = g.x /\ f.y = g.y /\ f.depth # g.depth

====
